---------------------------- MODULE ServerClaims ----------------------------
(***************************************************************************)
(* What the comments and docs of the server say of it, stated as           *)
(* properties of ServerDriver, and refuted by what the code does.          *)
(***************************************************************************)
EXTENDS ServerDriver

\* events.py:47: at Relay the driver is to `pump bytes both ways'.  What came in
\* one segment with the request stays in _buf, which the default relay never
\* reads, though a client may glue tunnel bytes to it (proxy_test.py:160-161).
GluedBytesForwarded ==
  pc = "Relay" /\ ~dec.customPipe => buf = <<>>

\* "non-SOCKS5 / bad-ATYP / oversize peers are rejected with a protocol reply"
\* (README.md:97-98): whom the server itself closes has had one last.
RejectedWithReply ==
  end = "close" =>
    /\ log # <<>>
    /\ Kind(log[Len(log)]) \in {"no method", "refused", "failure"}

=============================================================================
