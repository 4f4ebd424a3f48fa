--------------------------- MODULE MCHttpConsumer ---------------------------
(* Small instances of HttpConsumer for TLC. *)
EXTENDS HttpConsumer

\* Both ends of the 2xx range, a redirect the library does not follow, a
\* refusal, and a failing server.
MCStatusCodes == {200, 300, 403, 503}
=============================================================================
