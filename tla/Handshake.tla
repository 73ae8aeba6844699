------------------------------ MODULE Handshake ------------------------------
(***************************************************************************)
(* connector.Connect: dial, the server's greeting, the choice of an        *)
(* authentication plugin, the optional switch to TLS, the authentication   *)
(* exchange with at most one plugin switch, and the clean-up of every path *)
(* that fails.  The server answers as the protocol allows; it may also go  *)
(* away, stall, or refuse.                                                 *)
(***************************************************************************)
EXTENDS Wire

CONSTANTS
    Plugin,     \* authentication plugins the server may ask for
    Announced   \* capabilities it may announce: records [ssl, eof]

ASSUME HandshakeAssumption == Announced \subseteq [ssl : BOOLEAN, eof : BOOLEAN]

VARIABLE
    tls         \* the client is configured with a tls.Config

hsVars == <<wireVars, tls>>

Native == "mysql_native_password"      \* defaultAuthPlugin
Sha2   == "caching_sha2_password"
Sha256 == "sha256_password"
OpenID == "authentication_openid_connect_client"

\* Plugins auth() can answer for under the client's configuration; it refuses
\* clear text and old passwords, and does not know the rest.
Usable == {Native, Sha2, Sha256, OpenID}

Pkt(kind, arg, seq, own) ==
    [kind |-> kind, arg |-> arg, seq |-> seq, own |-> own, size |-> "part"]

-----------------------------------------------------------------------------
(* The client                                                               *)

\* Write one packet of the handshake and go on at then.
Reply(cmd, arg, then) ==
    me' = [me EXCEPT !.pc = "write", !.cmd = cmd, !.arg = arg, !.left = 1,
                     !.then = then, !.got = NoPkt]

ConnectFailsOpen(e) ==
    /\ me' = [me EXCEPT !.pc = "finish", !.then = "connectFailed", !.err = e,
                        !.got = NoPkt, !.part = NoPkt, !.bad = FALSE]
    /\ UNCHANGED <<conn, net>>

\* Every failure of Connect: cleanup, then the deferred finish.
ConnectFails(e) ==
    /\ Cleanup(me.c)
    /\ me' = [me EXCEPT !.pc = "finish", !.then = "connectFailed", !.err = e,
                        !.got = NoPkt, !.part = NoPkt, !.bad = FALSE]

\* The dial, the watcher's start and watchCancel.  The greeting is on its way.
Dial ==
    /\ me.pc = "dial"
    /\ \E cap \in Announced, p \in Plugin \cup {"ERR"} :
         LET hello == IF p = "ERR" THEN Pkt("ERR", "none", 0, me.n)
                      ELSE Pkt("HELLO", p, 0, me.n)
             dialled == [NewConn EXCEPT !.st = "dialled", !.watcher = "idle",
                                        !.user = me.cred]
         IN  IF me.n \in done
                THEN /\ conn' = [conn EXCEPT ![me.c] = [dialled EXCEPT !.closed = TRUE]]
                     /\ net' = [net EXCEPT ![me.c] = NewNet]
                     /\ me' = [me EXCEPT !.pc = "connectFailed", !.err = "canceled"]
                ELSE /\ conn' = [conn EXCEPT ![me.c] =
                                   [dialled EXCEPT !.watching = TRUE, !.chan = me.n]]
                     /\ net' = [net EXCEPT ![me.c] =
                                   [NewNet EXCEPT !.out = <<hello>>,
                                                  !.ssl = cap.ssl, !.eof = cap.eof]]
                     /\ me' = [me EXCEPT !.pc = "hello"]
    /\ UNCHANGED <<done, tls>>

DialFails ==
    /\ me.pc = "dial"
    /\ me' = [me EXCEPT !.pc = "connectFailed", !.c = NoConn, !.err = "ErrSetup"]
    /\ UNCHANGED <<conn, net, done, tls>>

\* initCapabilities: what both sides can do.
InitCapabilities(c, server) == [c EXCEPT !.deprecateEOF = server.eof]

\* readHandshakePacket, auth with its fall back to the default plugin, and
\* initCapabilities, up to the first packet written.
ReadHandshakePacket ==
    /\ me.pc = "hello" /\ me.got # NoPkt
    /\ LET plugin == IF me.got.arg \in Usable THEN me.got.arg ELSE Native
           server == net[me.c]
       IN  \/ /\ IsErr(me.got)
              /\ ConnectFails(me.got.kind)
           \/ /\ me.got.kind = "ERR"
              /\ ConnectFails("MySQLError")
           \/ /\ me.got.kind = "HELLO" /\ tls /\ ~server.ssl
              /\ ConnectFails("ErrSetup")                    \* ErrNoTLS
           \/ /\ me.got.kind = "HELLO" /\ (tls => server.ssl)
              /\ conn' = [conn EXCEPT ![me.c] = InitCapabilities(@, server)]
              /\ IF tls THEN Reply("sslRequest", plugin, "tls")
                        ELSE Reply("auth", plugin, "authResult")
              /\ net' = [net EXCEPT ![me.c].ssl = FALSE, ![me.c].eof = FALSE]
    /\ UNCHANGED <<done, tls>>

\* The TLS half of writeHandshakeResponsePacket.
SwitchToTLS ==
    /\ me.pc = "tls"
    /\ \/ /\ ~conn[me.c].closed /\ net[me.c].up = "up"
          /\ conn' = [conn EXCEPT ![me.c].tls = TRUE]
          /\ Reply("auth", me.arg, "authResult")
          /\ UNCHANGED net
       \/ /\ ~conn[me.c].closed /\ net[me.c].up = "up"       \* the certificate
          /\ ConnectFails("ErrSetup")
       \/ /\ conn[me.c].closed \/ net[me.c].up = "gone"
          /\ ConnectFails(CanceledOr(me.c, "ErrSetup"))
    /\ UNCHANGED <<done, tls>>

\* Connect succeeded: the deferred finish, then the call itself.
Connected ==
    /\ conn' = [conn EXCEPT ![me.c].st = "ready"]
    /\ me' = [me EXCEPT !.pc = "finish", !.then = "watch", !.got = NoPkt,
                        !.cmd = "none", !.arg = "none"]
    /\ UNCHANGED net

\* handleAuthResult.  me.arg is the plugin in use; switched tells the second
\* readAuthResult from the first.
HandleAuthResult ==
    /\ me.pc = "authResult" /\ me.got # NoPkt
    /\ \/ /\ IsErr(me.got)
          /\ ConnectFails(me.got.kind)
       \/ /\ me.got.kind = "ERR"
          /\ ConnectFails("MySQLError")
       \/ /\ me.got.kind = "SWITCH"
          /\ IF me.cmd = "authSwitch" \/ me.got.arg \notin Usable
             THEN ConnectFails("ErrMalformPkt")
             ELSE /\ Reply("authSwitch", me.got.arg, "authResult")
                  /\ UNCHANGED <<conn, net>>
       \/ /\ me.got.kind = "OK"
          /\ Connected
       \/ /\ me.got.kind = "FAST" /\ me.arg = Sha2
          /\ me' = [me EXCEPT !.pc = "authOK", !.got = NoPkt]
          /\ UNCHANGED <<conn, net>>
       \/ /\ me.got.kind = "FULL" /\ me.arg = Sha2
          /\ IF tls THEN Reply("password", Sha2, "authOK")
                    ELSE Reply("keyRequest", Sha2, "authKey")
          /\ UNCHANGED <<conn, net>>
       \/ /\ me.got.kind = "KEY" /\ me.arg = Sha256
          /\ Reply("encrypted", Sha256, "authOK")
          /\ UNCHANGED <<conn, net>>
    /\ UNCHANGED <<done, tls>>

\* The public key of a full authentication without TLS.
ReadPublicKey ==
    /\ me.pc = "authKey" /\ me.got # NoPkt
    /\ \/ /\ IsErr(me.got)
          /\ ConnectFails(me.got.kind)
       \/ /\ me.got.kind = "ERR"
          /\ ConnectFails("ErrMalformPkt")
       \/ /\ me.got.kind = "KEY"
          /\ Reply("encrypted", Sha2, "authOK")
          /\ UNCHANGED <<conn, net>>
    /\ UNCHANGED <<done, tls>>

\* readResultOK at the end of an authentication.
ReadAuthOK ==
    /\ me.pc = "authOK" /\ me.got # NoPkt
    /\ \/ IsErr(me.got) /\ ConnectFails(me.got.kind)
       \/ me.got.kind = "ERR" /\ ConnectFails("MySQLError")
       \/ me.got.kind = "OK" /\ Connected
    /\ UNCHANGED <<done, tls>>

\* A write of the handshake failed.
HandshakeWriteFails ==
    /\ me.pc = "failed" /\ conn[me.c].st = "dialled"
    /\ ConnectFails(me.got.kind)
    /\ UNCHANGED <<done, tls>>

-----------------------------------------------------------------------------
(* The server's side of the authentication                                  *)

\* Replies to the packet cmd naming plugin p, on a connection with or
\* without TLS.  FAST, FULL and KEY belong to the plugins that use them.
AuthReplies(cmd, p, secure) ==
    LET Answer == {<<"OK">>, <<"ERR">>}
    IN  CASE cmd = "sslRequest" -> {<<>>}
          [] cmd \in {"password", "encrypted"} -> Answer
          [] cmd = "keyRequest" -> {<<"KEY">>, <<"ERR">>}
          [] cmd \in {"auth", "authSwitch"} ->
               Answer
               \cup {<<"SWITCH", q>> : q \in Plugin}
               \cup (IF p = Sha2 THEN {<<"FAST", "OK">>, <<"FULL">>} ELSE {})
               \cup (IF p = Sha256 /\ ~secure THEN {<<"KEY">>} ELSE {})

AuthCmds == {"sslRequest", "auth", "authSwitch", "password", "encrypted", "keyRequest"}

\* The frames of the reply r, numbered from n; a plugin is named by a switch only.
AuthFrames(r, n, own) ==
    CASE r = <<>> -> <<>>
      [] r # <<>> /\ r[1] = "SWITCH" -> <<Pkt("SWITCH", r[2], n, own)>>
      [] r = <<"FAST", "OK">> ->
           <<Pkt("FAST", "none", n, own), Pkt("OK", "none", Next8(n), own)>>
      [] OTHER -> <<Pkt(r[1], "none", n, own)>>

ServerAuthenticates(c) ==
    /\ net[c].up = "up" /\ net[c].in # <<>> /\ net[c].out = <<>>
    /\ LET f == Head(net[c].in)
           n == Next8(f.seq)
       IN  /\ f.cmd \in AuthCmds
           /\ \E r \in AuthReplies(f.cmd, f.arg, conn[c].tls) :
                net' = [net EXCEPT ![c].in = Tail(@),
                          ![c].out = IF conn[c].closed THEN <<>>
                                     ELSE AuthFrames(r, n, f.own),
                          ![c].accepted = @ \/ (r # <<>> /\ r[Len(r)] = "OK")]
    /\ UNCHANGED <<conn, me, done, tls>>

=============================================================================
