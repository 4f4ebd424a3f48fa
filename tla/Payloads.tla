------------------------------ MODULE Payloads ------------------------------
(***************************************************************************)
(* What the library does to the data it carries: the json bodies it makes  *)
(* of Parameters, the envelopes KeyValue and Transit put around a secret   *)
(* and take off it, and what a program that reads its secret back gets.    *)
(*                                                                         *)
(* A json value is a record of its type and its content; an object's       *)
(* content is a function from names to json values.  The application types *)
(* a text byte by byte, or fills in parameters one by one.                 *)
(***************************************************************************)
EXTENDS Base64, FiniteSets

CONSTANTS
  Bytes,          \* the bytes a text is typed with
  MaxLength,      \* of a text typed byte by byte
  Runs,           \* how often a byte repeats when its key is held down
  Names,          \* of parameters
  Words,          \* the strings that parameters hold
  MaxParameters   \* how many are filled in

ASSUME BytesAssumption == Bytes \subseteq Byte
ASSUME BoundsAssumption ==
  MaxLength \in Nat /\ MaxParameters \in Nat /\ Runs \subseteq Nat

VARIABLES
  text,        \* a plaintext, or something that claims to be base64
  parameters   \* a Vault::Parameters

vars == <<text, parameters>>

Empty == << >>

Json(type, of) == [type |-> type, of |-> of]

null == Json("null", Empty)

\* The parameters, or the members of an object, that hold one thing only.
Only(name, of) == [n \in {name} |-> of]

\* f with of under name.
Put(f, name, of) == [n \in DOMAIN f \cup {name} |-> IF n = name THEN of ELSE f[n]]

Strings == [kind : {"string"}, of : Words]

\* Vault::ValueVariant
ValueVariants ==
  Strings \cup [kind : {"int"}, of : Words]
  \cup [kind : {"vector"}, of : {<< >>} \cup {<<w>> : w \in Words}]
  \cup [kind : {"map"}, of : {Empty} \cup [{"key"} -> Words]]

Init == text = << >> /\ parameters = Empty

Type(b) ==
  /\ parameters = Empty /\ Len(text) < MaxLength
  /\ text' = Append(text, b)
  /\ UNCHANGED parameters

\* A long text: two bytes at most and then a run of one.
Hold(b, n) ==
  /\ parameters = Empty /\ Len(text) <= 2
  /\ text' = text \o [i \in 1..n |-> b]
  /\ UNCHANGED parameters

\* The initializer list of an unordered_map keeps the first of two equal names.
Fill(k, v) ==
  /\ text = << >> /\ Cardinality(DOMAIN parameters) < MaxParameters
  /\ k \notin DOMAIN parameters
  /\ parameters' = Put(parameters, k, v)
  /\ UNCHANGED text

Next == \/ \E b \in Bytes : Type(b)
        \/ \E b \in Bytes, n \in Runs : Hold(b, n)
        \/ \E k \in Names, v \in ValueVariants : Fill(k, v)

Spec == Init /\ [][Next]_vars

-----------------------------------------------------------------------------
(* Bodies.                                                                 *)

\* The json of an empty Map is never assigned to and stays null.
ToJson(v) ==
  CASE v.kind = "string" -> Json("string", v.of)
    [] v.kind = "int" -> Json("number", v.of)
    [] v.kind = "vector" -> Json("array", v.of)
    [] v.kind = "map" ->
         IF v.of = Empty THEN null
         ELSE Json("object", [k \in DOMAIN v.of |-> Json("string", v.of[k])])

create_json(p) == Json("object", [k \in DOMAIN p |-> ToJson(p[k])])

\* json[name] = value on an object: a member of that name is overwritten.
With(json, name, value) == Json("object", Put(json.of, name, value))

PutBody(p, options) == With(create_json(p), "options", create_json(options))

PostBody_Swapped(p, options, config) ==
  With(PutBody(p, config), "config", create_json(options))

PostBody(p, options, config) ==
  With(PutBody(p, options), "config", create_json(config))

\* The body of KeyValue::create and update, for either version of the engine.
SecretBody_Bare(p) == create_json(p)

SecretBody(p) == Json("object", Only("data", create_json(p)))

\* What a caller of Transit::encrypt makes of its text; encrypt posts it as it is.
Plaintext(t) == Only("plaintext", [kind |-> "string", of |-> encode(t)])

EncryptBody(p) == create_json(p)

-----------------------------------------------------------------------------
(* Answers.  A lookup or a conversion that json cannot do throws.          *)

threw == [outcome |-> "threw"]

value(v) == [outcome |-> "value", value |-> v]

\* json[name], which makes a null of a name that is not there.
Member(json, name) ==
  IF json.type = "object" /\ name \in DOMAIN json.of THEN json.of[name] ELSE null

\* Transit::decrypt on a 2xx answer: the conversion to a string throws for an
\* answer without a plaintext, which a batch of ciphertexts gets.
decrypt(answer) ==
  LET encoded_text == Member(Member(answer, "data"), "plaintext")
  IN  IF encoded_text.type = "string" THEN value(decode(encoded_text.of))
      ELSE threw

\* Database::withSecrets reads the secret as strings by name.
Secrets(answer) ==
  LET secrets == Member(Member(answer, "data"), "data")
  IN  IF /\ secrets.type = "object"
         /\ \A k \in DOMAIN secrets.of : secrets.of[k].type = "string"
      THEN value([k \in DOMAIN secrets.of |-> secrets.of[k].of])
      ELSE threw

\* A user name or a password of the configuration names the secret that holds
\* it; one that names no secret is used as it stands.
withSecrets(name, secrets) ==
  IF name \in DOMAIN secrets THEN secrets[name] ELSE name

\* The Vault server, external: version 1 keeps the body it is sent and answers
\* with it under "data"; version 2 keeps what the body has under "data" and adds
\* an envelope of its own.
Stored(version, body) ==
  IF version = "v1" THEN body ELSE Member(body, "data")

Answer(version, stored) ==
  IF version = "v1" THEN Json("object", Only("data", stored))
  ELSE Json("object", Only("data", Json("object",
         [n \in {"data", "metadata"} |-> IF n = "data" THEN stored ELSE null])))

\* Vault decrypts what it was given to encrypt.
Decrypted(body) == Json("object", Only("data", body))

-----------------------------------------------------------------------------
(* Correctness.                                                            *)

\* encode writes the bits of the text six by six as RFC 4648 has it, if its length
\* fits an unsigned int; of a longer one it leaves out whole spans.
EncodesBits == Len(text) < UnsignedSpan => encode(text) = Encoding(text)

\* decode gives the whole bytes of the characters it reads and stops at the first
\* one that is not in the alphabet, if the length fits an int; a locale's letters
\* beyond ASCII, which it would take for sextets, are left out.
DecodesPrefix ==
  /\ Len(text) <= IntMax
  /\ \A i \in 1..Len(text) : text[i] <= 127
  => decode(text) = Decoding(text)

\* What Transit decrypts is what was encrypted, whatever its bytes and however its
\* last group is filled, if the length of its encoding fits an int.
RoundTrip ==
  Len(Encoding(text)) <= IntMax =>
    /\ decode(encode(text)) = text
    /\ decrypt(Decrypted(EncryptBody(Plaintext(text)))) = value(text)

\* Characters are lost without a word exactly when the text is no canonical
\* encoding, so a caller who encodes the result again can tell; of texts whose
\* length fits an int.
LossIsVisible ==
  Len(text) <= IntMax => (Canonical(text) <=> encode(decode(text)) = text)

\* What a reader can tell of the values in a body.
FromJson(j) ==
  CASE j.type = "string" -> [kind |-> "string", of |-> j.of]
    [] j.type = "number" -> [kind |-> "int", of |-> j.of]
    [] j.type = "array" -> [kind |-> "vector", of |-> j.of]
    [] j.type = "null" -> [kind |-> "map", of |-> Empty]
    [] j.type = "object" ->
         [kind |-> "map", of |-> [k \in DOMAIN j.of |-> j.of[k].of]]

Told(body) == [k \in DOMAIN body.of |-> FromJson(body.of[k])]

\* No two sets of parameters make the same body: every kind of value can be told
\* from the others, and options and config reach Vault as they are, at the price
\* of parameters of those names.
BodiesTellAll ==
  LET others == DOMAIN parameters \ {"options", "config"}
      some == Only("cas", [kind |-> "int", of |-> "1"])
  IN  /\ Told(create_json(parameters)) = parameters
      /\ \A options, config \in {Empty, some} :
           LET body == PostBody(parameters, options, config)
           IN  /\ DOMAIN body.of = others \cup {"options", "config"}
               /\ \A k \in others : Told(body)[k] = parameters[k]
               /\ body.of["options"] = create_json(options)
               /\ body.of["config"] = create_json(config)

\* A secret that KeyValue has written is read back by the program of the examples
\* as it was written, from either version of the engine, if all of it is strings,
\* and throws otherwise; and a name it has no value for stays as configured.
ReadsBackItsSecret ==
  \A version \in {"v1", "v2"} :
    LET read == Secrets(Answer(version, Stored(version, SecretBody(parameters))))
    IN  IF \A k \in DOMAIN parameters : parameters[k].kind = "string"
        THEN /\ read.outcome = "value"
             /\ DOMAIN read.value = DOMAIN parameters
             /\ \A k \in Names :
                  withSecrets(k, read.value) =
                    IF k \in DOMAIN parameters THEN parameters[k].of ELSE k
        ELSE read = threw
=============================================================================
