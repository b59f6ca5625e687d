----------------------------- MODULE ShortCodes -----------------------------
(***************************************************************************)
(* Short codes and the requests that carry them: the Base62 codec and the  *)
(* generator of app/core/shortener.py, the checks of CreateUrlRequest      *)
(* (app/schemas.py), the range of short_code_length (app/config.py), and   *)
(* the columns the accepted values have to fit (app/db/models.py).         *)
(*                                                                         *)
(* A character is its index in the alphabet; the codec is followed along   *)
(* the ids 0, 1, 2, ... by an odometer that knows nothing of division.     *)
(***************************************************************************)
EXTENDS Integers, Sequences, SequencesExt

CONSTANTS
    Base,                    \* len(BASE62_ALPHABET)
    MaxId,                   \* bound: the last id
    Lengths,                 \* lengths of the custom codes that clients send
    Days,                    \* what they send as expires_in_days
    Hops,                    \* values of X-Forwarded-For, as lengths of its hops
    MinLength, MaxLength,    \* CUSTOM_CODE_MIN_LENGTH, CUSTOM_CODE_MAX_LENGTH
    MinSetting, MaxSetting,  \* ge and le of short_code_length
    MaxDays,                 \* le of expires_in_days
    CodeWidth, ClientWidth,  \* the widths of short_code and client_id
    AddressLength            \* the length of a socket address

ASSUME Sizes ==
    /\ Base \in Nat \ {0, 1}
    /\ MaxId \in Nat
    /\ Lengths \subseteq Nat /\ Days \subseteq Int /\ Hops \subseteq Seq(Nat)
    /\ {MinLength, MaxLength, MinSetting, MaxSetting, MaxDays, CodeWidth, ClientWidth} \subseteq Nat
    /\ AddressLength \in 0 .. ClientWidth

Alphabet == 0 .. Base - 1
Foreign == Base   \* any character that is not of the alphabet
Absent == -1      \* None

(***************************************************************************)
(* The codec.                                                              *)
(***************************************************************************)
\* The loop of encode_base62: remainders, least significant first.
remainders[n \in Nat] ==
    IF n = 0 THEN <<>> ELSE <<n % Base>> \o remainders[n \div Base]

\* Seeded fault: the digits are left in the order of the loop.
EncodeUnreversed(n) == IF n = 0 THEN <<0>> ELSE remainders[n]

encode_base62(n) == IF n = 0 THEN <<0>> ELSE Reverse(remainders[n])

\* decode_base62 raises ValueError on these.
Undecodable(text) == text = <<>> \/ \E i \in DOMAIN text : text[i] \notin Alphabet

\* Seeded fault: an empty string decodes to 0, and foreign characters are skipped.
DecodeLeniently(text) ==
    LET value[i \in 0 .. Len(text)] ==
          IF i = 0 THEN 0
          ELSE IF text[i] \in Alphabet THEN value[i - 1] * Base + text[i] ELSE value[i - 1]
    IN value[Len(text)]

decode_base62(text) ==
    LET value[i \in 0 .. Len(text)] ==
          IF i = 0 THEN 0 ELSE value[i - 1] * Base + text[i]
    IN IF Undecodable(text) THEN Absent ELSE value[Len(text)]

(***************************************************************************)
(* The requests.  Of a code, only its length and whether some character of *)
(* it is foreign to the alphabet decide anything.                          *)
(***************************************************************************)
CodeOf(length, foreign) == [length |-> length, foreign |-> foreign]
NoCode == CodeOf(Absent, FALSE)   \* custom_code is None

\* Seeded fault: one character more than the column has.
ValidateOneMore(custom) == custom.length \in MinLength .. MaxLength + 1 /\ ~custom.foreign

\* _validate_custom_code
Validate(custom) == custom.length \in MinLength .. MaxLength /\ ~custom.foreign

\* Field(default=None, gt=0, le=3650)
ValidLifetime(days) == days = Absent \/ days \in 1 .. MaxDays

Bodies ==
    [custom : {CodeOf(n, f) : n \in Lengths, f \in BOOLEAN} \cup {NoCode},
     days : Days \cup {Absent},
     forwarded : Hops]   \* <<>>: no X-Forwarded-For

\* Settings rejects any other short_code_length.
Settings == MinSetting .. MaxSetting

\* Seeded fault: one character fewer than asked for.
GenerateShorter(length) == CodeOf(length - 1, FALSE)

\* generate_short_code: length characters of the alphabet, any of them.
Generate(length) == CodeOf(length, FALSE)

\* get_client_identifier: the first hop, or the address of the socket.
client_id(forwarded) == IF forwarded # <<>> THEN Head(forwarded) ELSE AddressLength

VARIABLES
    id, text,   \* an id, and the odometer's text of it
    setting,    \* short_code_length of this process
    body,       \* the request
    code,       \* its short code, once it has one
    answer      \* "none", "accepted", "chosen", "201", "422", or "500"

codec == <<id, text>>
vars == <<id, text, setting, body, code, answer>>

Init ==
    /\ id = 0 /\ text = <<0>>
    /\ setting \in Settings
    /\ body \in Bodies
    /\ code = NoCode
    /\ answer = "none"

\* The odometer: the last wheel that is not at its highest digit turns, those
\* behind it go back to 0; a new wheel is put in front when all are at it.
Turned(wheels) ==
    IF \A i \in DOMAIN wheels : wheels[i] = Base - 1
      THEN <<1>> \o [i \in DOMAIN wheels |-> 0]
      ELSE LET last == CHOOSE i \in DOMAIN wheels :
                         /\ wheels[i] # Base - 1
                         /\ \A j \in DOMAIN wheels : j > i => wheels[j] = Base - 1
           IN [i \in DOMAIN wheels |-> IF i < last THEN wheels[i]
                                       ELSE IF i = last THEN wheels[i] + 1 ELSE 0]

NextId ==
    /\ id < MaxId
    /\ id' = id + 1
    /\ text' = Turned(text)
    /\ UNCHANGED <<setting, body, code, answer>>

\* The body is checked before the handler runs: 422.
Check ==
    /\ answer = "none"
    /\ answer' = IF (body.custom # NoCode => Validate(body.custom)) /\ ValidLifetime(body.days)
                   THEN "accepted" ELSE "422"
    /\ UNCHANGED <<codec, setting, body, code>>

\* create_url takes the custom code or generates one.
Choose ==
    /\ answer = "accepted"
    /\ code' = IF body.custom # NoCode THEN body.custom ELSE Generate(setting)
    /\ answer' = "chosen"
    /\ UNCHANGED <<codec, setting, body>>

\* The INSERT fails on a value that is longer than its column, and nothing turns
\* the DataError into a client error.
Insert ==
    /\ answer = "chosen"
    /\ answer' = IF code.length <= CodeWidth /\ client_id(body.forwarded) <= ClientWidth
                   THEN "201" ELSE "500"
    /\ UNCHANGED <<codec, setting, body, code>>

Next == NextId \/ Check \/ Choose \/ Insert

Spec == Init /\ [][Next]_vars
-----------------------------------------------------------------------------
(***************************************************************************)
(* "deterministic, reversible": encode_base62 gives the odometer's text of *)
(* every id, and decode_base62 leads back to the id.                       *)
(***************************************************************************)
CodecCounts == encode_base62(id) = text /\ decode_base62(text) = id

ShortTexts == UNION {[1 .. n -> 0 .. Base] : n \in 0 .. 3}

(***************************************************************************)
(* decode_base62 takes for an id nothing but the text of the id with zeros *)
(* in front: two ids share no text, and a text with a foreign character,   *)
(* or an empty one, is no id at all.                                       *)
(***************************************************************************)
DecodesNothingElse ==
    \A t \in ShortTexts : decode_base62(t) = id =>
        \E zeros \in 0 .. Len(t) : /\ \A i \in 1 .. zeros : t[i] = 0
                                   /\ SubSeq(t, zeros + 1, Len(t)) = encode_base62(id)

(***************************************************************************)
(* "custom and generated codes are interchangeable": under every setting,  *)
(* a code that goes to the table is one that the validator would accept,   *)
(* whether a client or the generator has chosen it.                        *)
(***************************************************************************)
Interchangeable == answer \in {"chosen", "201", "500"} => Validate(code)

(***************************************************************************)
(* An accepted body does not fail at the table: validator, settings and    *)
(* column agree on the width of a code.  Only a first hop that is longer   *)
(* than client_id, which nothing checks, makes the INSERT fail.            *)
(***************************************************************************)
AcceptedFits ==
    answer = "500" => body.forwarded # <<>> /\ Head(body.forwarded) > ClientWidth
=============================================================================
