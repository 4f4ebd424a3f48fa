------------------------------ MODULE Requests ------------------------------
(***************************************************************************)
(* How an operation of the library is written down in the route modules:   *)
(* the HttpConsumer function it calls and the URL it builds.               *)
(*                                                                         *)
(* A URL is a sequence of pieces, the literals and parameters the code     *)
(* concatenates.  A slash where two of them meet is the piece S, so that   *)
(* one the code forgets is missing here too.  A literal with slashes of    *)
(* its own inside is one piece.                                            *)
(*                                                                         *)
(* The name of a method is split into the word that says what it does and  *)
(* the noun that says to what: readRole is <<"read", "Role">>, and seal is *)
(* <<"seal", "-">>.  Where the name leaves a noun out that is meant, or    *)
(* spells it in two ways ("Config" and "Configuration", singular and       *)
(* plural), one spelling is used.                                          *)
(***************************************************************************)
EXTENDS SequencesExt

S == "/"

\* The paths the operations append to the URL of their class: nothing, one piece, ...
Itself == <<>>

On(piece) == <<piece>>

\* ... and what is below a path, behind a slash or glued to it.
Sub(path, piece) == path \o <<S, piece>>

Glued(path, piece) == path \o <<piece>>

At(collection, n) == Sub(On(collection), n)

Below(collection, n, sub) == Sub(At(collection, n), sub)

\* With open, the request needs no client token.
Operation(verb, word, noun, url, open) ==
  [verb |-> verb, word |-> word, noun |-> noun, url |-> url, open |-> open]

get(word, noun, url) == Operation("GET", word, noun, url, FALSE)

list(word, noun, url) == Operation("LIST", word, noun, url, FALSE)

post(word, noun, url) == Operation("POST", word, noun, url, FALSE)

put(word, noun, url) == Operation("PUT", word, noun, url, FALSE)

del(word, noun, url) == Operation("DELETE", word, noun, url, FALSE)

unauthenticated_get(word, noun, url) == Operation("GET", word, noun, url, TRUE)

unauthenticated_post(word, noun, url) == Operation("POST", word, noun, url, TRUE)

\* A POST of the HttpClient, with a token that is handed to it and not the client's.
post_with_token(word, noun, url) == Operation("POST", word, noun, url, TRUE)

\* The URL of a class, with the slash at its end or without.
Under(base) == <<base, S>>

Bare(base) == <<base>>

getUrl(base, path) == <<"v1", S>> \o base \o path

\* The operations of a class whose getUrl appends the path to base.
Class(base, operations) ==
  {Operation(o.verb, o.word, o.noun, getUrl(base, o.url), o.open) : o \in operations}
=============================================================================
