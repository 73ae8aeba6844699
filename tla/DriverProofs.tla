----------------------------- MODULE DriverProofs -----------------------------
(***************************************************************************)
(* Proofs about Driver, for any calls, connections, replies and plugins.   *)
(***************************************************************************)
EXTENDS Driver, FiniteSetTheorems, TLAPS

(* The inductive invariant.                                                 *)

HandshakePCs == {"hello", "tls", "authResult", "authOK", "authKey"}

\* Between two operations of a call the connection is not watched.
BetweenPCs == {"reset", "watch", "stmt", "closeStmt", "inTx", "drain", "release"}

ReplyPCs == {"ok", "prepared", "execute", "header"}

SessionPCs == BetweenPCs \cup ReplyPCs \cup {"send", "columns", "eof", "skip", "next", "rows"}

St == conn[me.c].st

\* Where the calling goroutine is, and the state its connection is in there.
CallerInv ==
    /\ me.pc \in {"idle", "conn"} => me.c = NoConn
    /\ me.pc \notin {"idle", "conn", "connectFailed"} => me.c \in Conn
    /\ me.pc # "idle" => me.n # NoCall
    /\ me.pc = "dial" => St = "none"
    /\ me.pc \in HandshakePCs => St = "dialled"
    /\ me.pc \in SessionPCs => St = "ready"
    /\ me.pc = "write" =>
          /\ me.left # 0 /\ me.cmd \in Sent
          /\ \/ St = "dialled" /\ me.then \in HandshakePCs
             \/ St = "ready" /\ me.then \in ReplyPCs \cup {"release"}
    /\ me.pc = "failed" => St \in {"dialled", "ready"} /\ conn[me.c].closed /\ IsErr(me.got)
    /\ me.pc = "finish" =>
          \/ me.then = "connectFailed" /\ St = "dialled" /\ conn[me.c].closed
          \/ me.then \in BetweenPCs /\ St = "ready"
    /\ me.pc = "connectFailed" /\ me.c # NoConn => St = "dialled" /\ conn[me.c].closed
    /\ me.pc \in BetweenPCs \/ (me.pc = "write" /\ me.then = "release") =>
          conn[me.c].closed \/ ~conn[me.c].watching

\* A connection is watched for the call that uses it and for nobody else; one
\* that is not in use is closed, or lies in the pool.
LinkInv(c) ==
    /\ conn[c].st = "none" => conn[c] = NewConn
    /\ conn[c].canceled # NoCall => conn[c].closed
    /\ ~conn[c].closed /\ ~conn[c].watching =>
          conn[c].chan = NoCall /\ conn[c].ctx = NoCall /\ conn[c].watcher # "watching"
    /\ ~conn[c].closed /\ conn[c].watching =>
          /\ c = me.c
          /\ conn[c].chan \in {NoCall, me.n} /\ conn[c].ctx \in {NoCall, me.n}
          /\ conn[c].watcher = "watching" => conn[c].ctx = me.n /\ conn[c].chan = NoCall
    /\ c # me.c /\ conn[c].st # "none" =>
          conn[c].closed \/ (c \in idle /\ conn[c].st = "ready" /\ ~Busy(c))
    /\ c \in idle => c # me.c /\ conn[c].st = "ready"

OwnInv == TypeOK /\ CallerInv /\ \A c \in Conn : LinkInv(c)

USE WireAssumption, HandshakeAssumption, DriverAssumption

-----------------------------------------------------------------------------
(* Membership facts, so that the sets themselves can stay folded.           *)

LEMMA PCFacts ==
    /\ {"idle", "conn", "dial", "tls", "write", "failed", "finish", "connectFailed"} \subseteq PCs
    /\ SessionPCs \subseteq PCs /\ HandshakePCs \subseteq PCs /\ BetweenPCs \subseteq SessionPCs
    /\ ReplyPCs \subseteq SessionPCs
BY DEF PCs, SessionPCs, HandshakePCs, BetweenPCs, ReplyPCs, ReadPCs

LEMMA CallFacts ==
    /\ NoCall \in CallOrNone /\ NoConn \notin Conn /\ Call \subseteq CallOrNone
    /\ \A n \in CallOrNone : n # NoCall => n \in Call
BY DEF NoCall, NoConn, CallOrNone, Call

LEMMA PacketFacts ==
    /\ NoPkt \in Packet
    /\ \A e \in Errors : Err(e) \in Packet /\ Err(e).kind = e /\ IsErr(Err(e))
BY CallFacts DEF NoPkt, Err, Packet, Arg, IsErr

LEMMA ErrorFacts ==
    /\ \A c \in Conn, e \in Errors : CanceledOr(c, e) \in Errors
    /\ \A c \in Conn : ErrorOf(c) \in Errors \cup {"none"}
BY DEF CanceledOr, ErrorOf, Errors

\* Packet numbers stay in range.
LEMMA SeqRange == \A x \in Nat : x % SeqMod \in 0 .. SeqMod - 1
OBVIOUS

LEMMA Next8Range == \A s \in 0 .. SeqMod - 1 : Next8(s) \in 0 .. SeqMod - 1
BY SeqRange DEF Next8

LEMMA NewTypes == NewConn \in Connection /\ NewNet \in Socket /\ NoCaller \in Caller
<1>1. <<>> \in Seq(ServerFrame) /\ <<>> \in Seq(ClientFrame)
  OBVIOUS
<1>2. NewConn \in Connection
  BY <1>1, CallFacts DEF NewConn, Connection
<1>3. NewNet \in Socket
  BY <1>1 DEF NewNet, Socket
<1>4. NoCaller \in Caller
  BY CallFacts, PacketFacts, PCFacts DEF NoCaller, Caller, Cmd, Arg
<1> QED
  BY <1>2, <1>3, <1>4

\* Replacing one connection, or one socket, leaves the others alone.
LEMMA ConnUpdate ==
    ASSUME TypeOK, NEW c \in Conn, NEW x \in Connection, conn' = [conn EXCEPT ![c] = x]
    PROVE  /\ conn' \in [Conn -> Connection] /\ conn'[c] = x
           /\ \A d \in Conn : d # c => conn'[d] = conn[d]
BY DEF TypeOK

LEMMA NetUpdate ==
    ASSUME TypeOK, NEW c \in Conn, NEW x \in Socket, net' = [net EXCEPT ![c] = x]
    PROVE  /\ net' \in [Conn -> Socket] /\ net'[c] = x
           /\ \A d \in Conn : d # c => net'[d] = net[d]
BY DEF TypeOK

-----------------------------------------------------------------------------
(* What the helpers do to the caller.                                       *)

\* The call goes on, on the same connection.
Mine == me'.n = me.n /\ me'.c = me.c /\ me'.cred = me.cred

LEMMA EndEffect ==
    ASSUME TypeOK, NEW e \in Errors \cup {"none"}, End(e)
    PROVE  /\ me' \in Caller /\ Mine
           /\ me'.pc = "finish" /\ me'.then \in {"closeStmt", "release"}
<1> DEFINE e2 == IF me.err = "none" THEN e ELSE me.err
           t == IF me.kind \in Stmt /\ me.cmd \in {"stmt", "execute", "longData"}
                THEN "closeStmt" ELSE "release"
<1>1. me' = [me EXCEPT !.pc = "finish", !.got = NoPkt, !.part = NoPkt, !.bad = FALSE,
                       !.err = e2, !.then = t]
  BY DEF End
<1>2. e2 \in Errors \cup {"none"} /\ t \in {"closeStmt", "release"}
  BY DEF TypeOK, Caller
<1>3. "finish" \in PCs /\ "closeStmt" \in PCs /\ "release" \in PCs /\ NoPkt \in Packet
  BY PCFacts, PacketFacts DEF BetweenPCs
<1> HIDE DEF e2, t
<1> QED
  BY <1>1, <1>2, <1>3 DEF TypeOK, Caller, Mine

LEMMA CloseRowsEffect ==
    ASSUME TypeOK, NEW e \in Errors \cup {"none"}, CloseRows(e)
    PROVE  /\ me' \in Caller /\ Mine
           /\ me'.pc = "finish" /\ me'.then = "drain"
<1> DEFINE e2 == IF me.err = "none" THEN e ELSE me.err
<1>1. me' = [me EXCEPT !.pc = "finish", !.then = "drain", !.got = NoPkt, !.part = NoPkt,
                       !.bad = FALSE, !.err = e2]
  BY DEF CloseRows
<1>2. e2 \in Errors \cup {"none"}
  BY DEF TypeOK, Caller
<1>3. "finish" \in PCs /\ "drain" \in PCs /\ NoPkt \in Packet
  BY PCFacts, PacketFacts DEF BetweenPCs
<1> HIDE DEF e2
<1> QED
  BY <1>1, <1>2, <1>3 DEF TypeOK, Caller, Mine

LEMMA GotoEffect ==
    ASSUME TypeOK, NEW p \in PCs, Goto(p)
    PROVE  me' \in Caller /\ Mine /\ me'.pc = p
BY PacketFacts DEF TypeOK, Caller, Mine, Goto

LEMMA ReturnEffect ==
    ASSUME TypeOK, Return, me.n # NoCall
    PROVE  /\ me' \in Caller /\ me'.n = me.n /\ me'.pc = "idle" /\ me'.c = NoConn
           /\ done' \subseteq Call
<1>1. me.n \in CallOrNone
  BY DEF TypeOK, Caller
<1>2. me' = [NoCaller EXCEPT !.n = me.n]
  BY DEF Return
<1>3. me' \in Caller
  BY <1>1, <1>2, NewTypes DEF Caller
<1>4. me'.n = me.n /\ me'.pc = "idle" /\ me'.c = NoConn
  BY <1>2 DEF NoCaller
<1> QED
  BY <1>1, <1>3, <1>4, CallFacts DEF Return, TypeOK

LEMMA GiveUpConnEffect ==
    ASSUME TypeOK, NEW e, GiveUpConn(e), me.n # NoCall
    PROVE  /\ me' \in Caller /\ me'.n = me.n /\ me'.pc \in {"idle", "conn"} /\ me'.c = NoConn
           /\ done' \subseteq Call
<1>1. CASE Retry(e)
  <2>1. me' = [NoCaller EXCEPT !.n = me.n, !.kind = me.kind, !.cred = me.cred,
                               !.tries = me.tries + 1, !.pc = "conn"]
        /\ done' = done
    BY <1>1 DEF GiveUpConn
  <2>2. me.tries + 1 \in 0 .. 2 /\ "conn" \in PCs
    BY <1>1, PCFacts DEF Retry, TypeOK, Caller
  <2>3. me' \in Caller
    <3> DEFINE t == me.tries + 1
    <3>1. t \in 0 .. 2
      BY <2>2
    <3>2. me' = [NoCaller EXCEPT !.n = me.n, !.kind = me.kind, !.cred = me.cred,
                               !.tries = t, !.pc = "conn"]
      BY <2>1
    <3> HIDE DEF t
    <3> QED
      BY <2>2, <3>1, <3>2, NewTypes DEF Caller, TypeOK
  <2>4. me'.n = me.n /\ me'.pc = "conn" /\ me'.c = NoConn
    BY <2>1 DEF NoCaller
  <2> QED
    BY <2>1, <2>3, <2>4 DEF TypeOK
<1>2. CASE ~Retry(e)
  BY <1>2, ReturnEffect DEF GiveUpConn
<1> QED
  BY <1>1, <1>2

LEMMA WriteEffect ==
    ASSUME TypeOK, NEW cmd \in Sent, NEW k \in Nat \ {0}, Write(cmd, k), me.c \in Conn
    PROVE  /\ me' \in Caller /\ Mine
           /\ me'.pc = "write" /\ me'.cmd = cmd /\ me'.left # 0 /\ me'.then \in ReplyPCs
<1> DEFINE m == Mode(cmd)
           t == Reader(cmd)
<1>1. me' = [me EXCEPT !.pc = "write", !.cmd = cmd, !.arg = "none", !.left = k,
                       !.mode = m, !.then = t]
  BY DEF Write
<1>2. m \in {"exec", "query", "prepare", "endTx"}
  BY DEF Mode
<1>3. t \in ReplyPCs /\ t \in PCs
  BY PCFacts DEF Reader, ReplyPCs, SessionPCs
<1>4. "write" \in PCs /\ "none" \in Arg
  BY PCFacts DEF Arg
<1>5. cmd \in Cmd
  BY DEF Cmd
<1> HIDE DEF m, t
<1> QED
  BY <1>1, <1>2, <1>3, <1>4, <1>5 DEF TypeOK, Caller, Mine

-----------------------------------------------------------------------------
(* Steps of the calling goroutine on its connection.                        *)

\* x is connection y but for what has been read and written; it may have been
\* closed.
SameLink(x, y) ==
    /\ x.st = y.st /\ x.canceled = y.canceled /\ x.watching = y.watching
    /\ x.chan = y.chan /\ x.watcher = y.watcher /\ x.ctx = y.ctx
    /\ x.user = y.user
    /\ y.closed => x.closed
    /\ y.tls => x.tls

\* Only the caller's connection was touched, and only in that way.
Touched ==
    /\ conn' \in [Conn -> Connection]
    /\ \A d \in Conn : d # me.c => conn'[d] = conn[d]
    /\ SameLink(conn'[me.c], conn[me.c])

\* The connection is not watched, or not in use any more.
Free == conn[me.c].closed \/ ~conn[me.c].watching

\* Where the goroutine may go on from any point of a session.
Onward ==
    /\ me' \in Caller /\ Mine
    /\ \/ me'.pc \in SessionPCs \ BetweenPCs
       \/ me'.pc = "finish" /\ me'.then \in BetweenPCs
       \/ me'.pc = "write" /\ me'.cmd \in Sent /\ me'.left # 0 /\ me'.then \in ReplyPCs
       \/ Free /\ me'.pc \in BetweenPCs
       \/ Free /\ me'.pc = "write" /\ me'.cmd \in Sent /\ me'.left # 0 /\ me'.then = "release"

\* The links stay as they are when the caller's connection is touched.
LEMMA TouchedLinks ==
    ASSUME OwnInv, Touched, me.c \in Conn, St # "none", me'.c = me.c, me'.n = me.n,
           idle' = idle
    PROVE  \A c \in Conn : LinkInv(c)'
<1> SUFFICES ASSUME NEW c \in Conn PROVE LinkInv(c)'
  OBVIOUS
<1>1. LinkInv(c)
  BY DEF OwnInv
<1>2. CASE c # me.c
  BY <1>1, <1>2 DEF LinkInv, Touched, Busy
<1>3. CASE c = me.c
  BY <1>1, <1>3 DEF LinkInv, Touched, SameLink, St
<1> QED
  BY <1>2, <1>3

\* A step within a session.
LEMMA SessionStep ==
    ASSUME OwnInv, me.c \in Conn, me.n # NoCall, St = "ready", Touched, Onward,
           idle' = idle
    PROVE  me' \in Caller /\ CallerInv' /\ \A c \in Conn : LinkInv(c)'
<1>1. conn'[me'.c].st = "ready" /\ me'.n # NoCall /\ me'.c \in Conn
  BY DEF Onward, Mine, Touched, SameLink, St
<1>2. CallerInv'
  <2>1. me'.pc \notin {"idle", "conn", "connectFailed", "dial", "failed"} \cup HandshakePCs
    BY DEF Onward, SessionPCs, BetweenPCs, ReplyPCs, HandshakePCs
  <2>2. me'.pc \in BetweenPCs \/ (me'.pc = "write" /\ me'.then = "release") =>
           (conn'[me'.c].closed \/ ~conn'[me'.c].watching)
    BY DEF Onward, Mine, Free, Touched, SameLink, SessionPCs, BetweenPCs, ReplyPCs
  <2>3. me'.pc = "write" => me'.cmd \in Sent /\ me'.left # 0 /\ me'.then \in ReplyPCs \cup {"release"}
    BY DEF Onward, SessionPCs, BetweenPCs, ReplyPCs
  <2>4. me'.pc = "finish" => me'.then \in BetweenPCs
    BY DEF Onward, SessionPCs, BetweenPCs, ReplyPCs
  <2> QED
    BY <1>1, <2>1, <2>2, <2>3, <2>4 DEF CallerInv, St
<1>3. me'.c = me.c /\ me'.n = me.n
  BY DEF Onward, Mine
<1> QED
  BY <1>2, <1>3, TouchedLinks DEF Onward

\* A field that is no part of the link is set.
LEMMA SetSeq ==
    ASSUME TypeOK, me.c \in Conn, NEW s \in 0 .. SeqMod - 1,
           conn' = [conn EXCEPT ![me.c].seq = s]
    PROVE  Touched
<1> DEFINE y == conn[me.c]
           x == [y EXCEPT !.seq = s]
<1>1. y \in Connection
  BY DEF TypeOK
<1>2. conn' = [conn EXCEPT ![me.c] = x]
  OBVIOUS
<1> HIDE DEF y
<1>3. x \in Connection /\ SameLink(x, y)
  BY <1>1 DEF Connection, SameLink
<1> HIDE DEF x
<1> QED
  BY <1>2, <1>3, ConnUpdate DEF Touched, y

LEMMA WriteTouches ==
    ASSUME TypeOK, me.c \in Conn, NEW cmd, NEW k, Write(cmd, k)
    PROVE  Touched
<1> DEFINE y == conn[me.c]
           l == Long(k)
           x == [y EXCEPT !.seq = 0, !.long = l]
<1>1. y \in Connection
  BY DEF TypeOK
<1>5. 0 \in 0 .. SeqMod - 1
  OBVIOUS
<1>2. conn' = [conn EXCEPT ![me.c] = x]
  BY Zenon DEF Write
<1>4. l \in BOOLEAN
  BY Zenon DEF Long
<1> HIDE DEF y, l
<1>3. x \in Connection /\ SameLink(x, y)
  BY <1>1, <1>4, <1>5 DEF Connection, SameLink
<1> HIDE DEF x
<1> QED
  BY <1>2, <1>3, ConnUpdate DEF Touched, y

LEMMA SetMoreTouches ==
    ASSUME TypeOK, me.c \in Conn, NEW b \in BOOLEAN, SetMore(b)
    PROVE  Touched
<1> DEFINE y == conn[me.c]
           x == [y EXCEPT !.more = b]
<1>1. y \in Connection
  BY DEF TypeOK
<1>2. conn' = [conn EXCEPT ![me.c] = x]
  BY DEF SetMore
<1> HIDE DEF y
<1>3. x \in Connection /\ SameLink(x, y)
  BY <1>1 DEF Connection, SameLink
<1> HIDE DEF x
<1> QED
  BY <1>2, <1>3, ConnUpdate DEF Touched, y

LEMMA UntouchedTouches == ASSUME TypeOK, me.c \in Conn, UNCHANGED conn PROVE Touched
BY DEF TypeOK, Touched, SameLink

-----------------------------------------------------------------------------
(* The steps of a session.                                                  *)

LEMMA SessionFacts ==
    ASSUME OwnInv, me.pc \in SessionPCs
    PROVE  me.c \in Conn /\ me.n # NoCall /\ St = "ready" /\ me \in Caller /\ me.got \in Packet
<1>1. me.pc \notin {"idle", "conn", "connectFailed"}
  BY DEF SessionPCs, BetweenPCs, ReplyPCs
<1> QED
  BY <1>1 DEF OwnInv, CallerInv, TypeOK, Caller

LEMMA GotFacts ==
    ASSUME TypeOK
    PROVE  /\ IsErr(me.got) => me.got.kind \in Errors
           /\ Failed => Error \in Errors
           /\ \A cmd, e : e \in Errors => MarkBadConn(cmd, e) \in Errors
           /\ More \in BOOLEAN
           /\ \A cmd : cmd \in Command => cmd \in Sent
<1>1. IsErr(me.got) => me.got.kind \in Errors
  BY DEF IsErr
<1>2. Failed => Error \in Errors
  BY DEF Failed, Error, IsErr, Errors
<1>3. \A cmd, e : e \in Errors => MarkBadConn(cmd, e) \in Errors
  BY DEF MarkBadConn, Errors
<1>4. More \in BOOLEAN
  BY DEF More
<1>5. \A cmd : cmd \in Command => cmd \in Sent
  BY DEF Command, Sent, Main
<1> QED
  BY <1>1, <1>2, <1>3, <1>4, <1>5

\* Going on at another point of the session.
LEMMA EndOnward ==
    ASSUME TypeOK, NEW e \in Errors \cup {"none"}, End(e)
    PROVE  Onward
BY EndEffect DEF Onward, BetweenPCs

LEMMA CloseRowsOnward ==
    ASSUME TypeOK, NEW e \in Errors \cup {"none"}, CloseRows(e)
    PROVE  Onward
BY CloseRowsEffect DEF Onward, BetweenPCs

LEMMA GotoOnward ==
    ASSUME TypeOK, NEW p \in SessionPCs \ BetweenPCs, Goto(p)
    PROVE  Onward
<1>1. p \in PCs
  BY PCFacts
<1> QED
  BY <1>1, GotoEffect DEF Onward

LEMMA WriteOnward ==
    ASSUME TypeOK, NEW cmd \in Sent, NEW k \in Nat \ {0}, Write(cmd, k), me.c \in Conn
    PROVE  Touched /\ Onward
<1>1. Onward
  BY WriteEffect DEF Onward
<1> QED
  BY <1>1, WriteTouches

LEMMA SendStep == OwnInv /\ Send => Touched /\ Onward
<1> SUFFICES ASSUME OwnInv, Send PROVE Touched /\ Onward
  OBVIOUS
<1>1. TypeOK /\ me.c \in Conn
  BY SessionFacts DEF Send, SessionPCs, OwnInv
<1>2. PICK cmd \in Command :
         LET long == cmd \in {"query", "prepare"}
         IN  \/ /\ conn[me.c].closed \/ Busy(me.c)
                /\ End(CASE conn[me.c].closed /\ cmd = "endTx" -> ErrorOf(me.c)
                         [] conn[me.c].closed /\ cmd # "endTx" -> "ErrBadConn"
                         [] OTHER -> MarkBadConn(cmd, "ErrBusyBuffer"))
                /\ UNCHANGED conn
             \/ /\ ~conn[me.c].closed /\ ~Busy(me.c) /\ long
                /\ End(MarkBadConn(cmd, "ErrPktTooLarge"))
                /\ UNCHANGED conn
             \/ /\ ~conn[me.c].closed /\ ~Busy(me.c)
                /\ \E k \in 1 .. (IF long THEN MaxFrames ELSE 1) : Write(cmd, k)
  BY Zenon DEF Send
<1>3. cmd \in Sent
  BY <1>1, GotFacts
<1> DEFINE e1 == CASE conn[me.c].closed /\ cmd = "endTx" -> ErrorOf(me.c)
                   [] conn[me.c].closed /\ cmd # "endTx" -> "ErrBadConn"
                   [] OTHER -> MarkBadConn(cmd, "ErrBusyBuffer")
           e2 == MarkBadConn(cmd, "ErrPktTooLarge")
<1>4. {"ErrBadConn", "ErrBusyBuffer", "ErrPktTooLarge"} \subseteq Errors
  BY DEF Errors
<1>5. e1 \in Errors \cup {"none"} /\ e2 \in Errors
  <2>1. ErrorOf(me.c) \in Errors \cup {"none"}
    BY <1>1, ErrorFacts
  <2>2. MarkBadConn(cmd, "ErrBusyBuffer") \in Errors /\ e2 \in Errors
    BY <1>1, <1>4, GotFacts
  <2> QED
    BY <1>4, <2>1, <2>2
<1> HIDE DEF e1, e2
<1>6. CASE End(e1) /\ UNCHANGED conn
  BY <1>1, <1>5, <1>6, EndOnward, UntouchedTouches
<1>7. CASE End(e2) /\ UNCHANGED conn
  BY <1>1, <1>5, <1>7, EndOnward, UntouchedTouches
<1>8. CASE \E k \in 1 .. (IF cmd \in {"query", "prepare"} THEN MaxFrames ELSE 1) : Write(cmd, k)
  <2>1. PICK k \in Nat \ {0} : Write(cmd, k)
    BY <1>8
  <2> QED
    BY <1>1, <1>3, <2>1, WriteOnward
<1> QED
  BY <1>2, <1>6, <1>7, <1>8, Zenon DEF e1, e2

LEMMA SendExecuteStep == OwnInv /\ SendExecute => Touched /\ Onward
<1> SUFFICES ASSUME OwnInv, SendExecute PROVE Touched /\ Onward
  OBVIOUS
<1>1. TypeOK /\ me.c \in Conn
  BY SessionFacts DEF SendExecute, SessionPCs, ReplyPCs, OwnInv
<1> DEFINE e == MarkBadConn("execute", IF Busy(me.c) THEN "ErrBusyBuffer" ELSE "ErrPktTooLarge")
<1>2. e \in Errors /\ "ErrBadConn" \in Errors
  BY DEF MarkBadConn, Errors
<1>3. "execute" \in Sent /\ "longData" \in Sent
  BY DEF Sent, Main
<1>4. \/ End("ErrBadConn") /\ UNCHANGED conn
      \/ End(e) /\ UNCHANGED conn
      \/ \E k \in Nat \ {0} : Write("execute", k)
      \/ Write("longData", 1)
  BY DEF SendExecute, SendLongData
<1> HIDE DEF e
<1> QED
  BY <1>1, <1>2, <1>3, <1>4, EndOnward, WriteOnward, UntouchedTouches

\* Going on to the columns of an answer, or to the end of the call.
LEMMA ToColumns ==
    ASSUME TypeOK, NEW l \in Nat, me' = [me EXCEPT !.pc = "columns", !.left = l, !.got = NoPkt]
    PROVE  Onward
BY PCFacts, PacketFacts DEF Onward, Mine, TypeOK, Caller, SessionPCs, BetweenPCs, ReplyPCs

LEMMA ToParameters ==
    ASSUME TypeOK, NEW l \in Nat, NEW m \in {"params", "prepare"},
           me' = [me EXCEPT !.pc = "columns", !.left = l, !.mode = m, !.got = NoPkt]
    PROVE  Onward
BY PCFacts, PacketFacts, ZenonT(30) DEF Onward, Mine, TypeOK, Caller, SessionPCs, BetweenPCs, ReplyPCs

LEMMA ToNextColumn ==
    ASSUME TypeOK, NEW l \in Nat, me.pc = "columns",
           me' = [me EXCEPT !.left = l, !.got = NoPkt]
    PROVE  Onward
BY PCFacts, PacketFacts DEF Onward, Mine, TypeOK, Caller, SessionPCs, BetweenPCs, ReplyPCs

LEMMA ToRelease ==
    ASSUME TypeOK, Free, me' = [me EXCEPT !.pc = "release", !.got = NoPkt]
    PROVE  Onward
<1>1. me' \in Caller /\ Mine /\ me'.pc = "release"
  BY PCFacts, PacketFacts DEF Mine, TypeOK, Caller, SessionPCs, BetweenPCs
<1> QED
  BY <1>1 DEF Onward, BetweenPCs

LEMMA WriteFailedStep == OwnInv /\ WriteFailed => Touched /\ Onward
<1> SUFFICES ASSUME OwnInv, WriteFailed PROVE Touched /\ Onward
  OBVIOUS
<1>1. TypeOK /\ me \in Caller /\ me.c \in Conn /\ conn[me.c].closed /\ IsErr(me.got)
  BY DEF WriteFailed, OwnInv, CallerInv, TypeOK
<1>2. MarkBadConn(me.cmd, me.got.kind) \in Errors
  BY <1>1, GotFacts
<1>3. Touched
  BY <1>1, UntouchedTouches DEF WriteFailed
<1>4. CASE me' = [me EXCEPT !.pc = "release", !.got = NoPkt]
  BY <1>1, <1>3, <1>4, ToRelease DEF Free
<1> DEFINE e == MarkBadConn(me.cmd, me.got.kind)
<1>5. CASE End(e)
  <2>1. e \in Errors \cup {"none"}
    BY <1>2
  <2> HIDE DEF e
  <2> QED
    BY <1>1, <1>3, <1>5, <2>1, EndOnward
<1> QED
  BY <1>4, <1>5 DEF WriteFailed

LEMMA ReadResultOKStep == OwnInv /\ ReadResultOK => Touched /\ Onward
<1> SUFFICES ASSUME OwnInv, ReadResultOK PROVE Touched /\ Onward
  OBVIOUS
<1>1. TypeOK /\ me.c \in Conn
  BY SessionFacts DEF ReadResultOK, SessionPCs, ReplyPCs, OwnInv
<1>2. \/ Failed /\ End(Error) /\ UNCHANGED conn
      \/ SetMore(More) /\ End("none")
  BY DEF ReadResultOK
<1> QED
  BY <1>1, <1>2, EndOnward, SetMoreTouches, UntouchedTouches, GotFacts

LEMMA DiscardOnward ==
    ASSUME TypeOK, NEW b \in BOOLEAN, DiscardResults(b)
    PROVE  Onward
<1>1. CASE me' = [me EXCEPT !.pc = "header", !.got = NoPkt, !.rsDone = FALSE]
  BY <1>1, PCFacts, PacketFacts DEF Onward, Mine, TypeOK, Caller, SessionPCs, BetweenPCs, ReplyPCs
<1>2. CASE me' = [me EXCEPT !.pc = "send", !.got = NoPkt]
  BY <1>2, PCFacts, PacketFacts DEF Onward, Mine, TypeOK, Caller, SessionPCs, BetweenPCs, ReplyPCs
<1>3. CASE me' = [me EXCEPT !.pc = "finish", !.then = "inTx", !.got = NoPkt]
  BY <1>3, PCFacts, PacketFacts, ZenonT(60) DEF Onward, Mine, TypeOK, Caller, SessionPCs, BetweenPCs, ReplyPCs
<1>4. CASE End("none")
  BY <1>4, EndOnward
<1> QED
  BY <1>1, <1>2, <1>3, <1>4 DEF DiscardResults

LEMMA NoRowsOnward ==
    ASSUME TypeOK, NoRows
    PROVE  Onward
BY PCFacts, PacketFacts, ZenonT(60)
   DEF NoRows, Onward, Mine, TypeOK, Caller, SessionPCs, BetweenPCs, ReplyPCs

LEMMA NextNotEmptyOnward ==
    ASSUME TypeOK, me.c \in Conn, NEW b \in BOOLEAN, NextNotEmptyResultSet(b), me.pc = "header"
    PROVE  Onward
<1>1. CASE End(ErrorOf(me.c))
  BY <1>1, EndOnward, ErrorFacts
<1>2. CASE me' = [me EXCEPT !.mode = "loop", !.got = NoPkt, !.rsDone = FALSE, !.mc = FALSE]
  <2>1. me' = [me EXCEPT !.mode = "loop", !.pc = me.pc, !.got = NoPkt, !.rsDone = FALSE,
                         !.mc = FALSE]
    BY <1>2 DEF TypeOK, Caller
  <2> QED
    BY <2>1, PCFacts, PacketFacts
       DEF Onward, Mine, TypeOK, Caller, SessionPCs, BetweenPCs, ReplyPCs
<1> QED
  BY <1>1, <1>2, NoRowsOnward DEF NextNotEmptyResultSet

LEMMA ReadHeaderStep == OwnInv /\ ReadHeader => Touched /\ Onward
<1> SUFFICES ASSUME OwnInv, ReadHeader PROVE Touched /\ Onward
  OBVIOUS
<1>1. TypeOK /\ me.c \in Conn /\ me.pc = "header"
  BY SessionFacts DEF ReadHeader, SessionPCs, ReplyPCs, OwnInv
<1>2. \/ Failed /\ End(Error)
      \/ NoRows
      \/ NextNotEmptyResultSet(More)
      \/ DiscardResults(More)
      \/ me' = [me EXCEPT !.pc = "columns", !.left = Columns, !.got = NoPkt]
  BY DEF ReadHeader
<1>3. SetMore(FALSE) \/ SetMore(More) \/ UNCHANGED conn
  BY DEF ReadHeader
<1>4. Touched
  BY <1>1, <1>3, SetMoreTouches, UntouchedTouches, GotFacts
<1>5. CASE me' = [me EXCEPT !.pc = "columns", !.left = Columns, !.got = NoPkt]
  BY <1>1, <1>4, <1>5, ToColumns
<1>6. CASE Failed /\ End(Error)
  BY <1>1, <1>4, <1>6, EndOnward, GotFacts
<1>7. CASE NextNotEmptyResultSet(More)
  BY <1>1, <1>4, <1>7, NextNotEmptyOnward, GotFacts
<1>8. CASE DiscardResults(More)
  BY <1>1, <1>4, <1>8, DiscardOnward, GotFacts
<1> QED
  BY <1>1, <1>2, <1>4, <1>5, <1>6, <1>7, <1>8, NoRowsOnward

LEMMA PrepareOnward == ASSUME TypeOK, Prepare PROVE Onward
<1>1. CASE me' = [me EXCEPT !.pc = "columns", !.left = Columns, !.mode = "prepare", !.got = NoPkt]
  BY <1>1, ToParameters
<1>2. CASE me' = [me EXCEPT !.pc = "finish", !.then = "stmt", !.cmd = "stmt", !.got = NoPkt]
  BY <1>2, PCFacts, PacketFacts, ZenonT(60)
     DEF Onward, Mine, TypeOK, Caller, SessionPCs, BetweenPCs, ReplyPCs, Cmd
<1> QED
  BY <1>1, <1>2 DEF Prepare

LEMMA AfterColumnsOnward == ASSUME TypeOK, AfterColumns PROVE Onward
<1>1. CASE me' = [me EXCEPT !.pc = "rows", !.got = NoPkt, !.rsDone = FALSE, !.mc = TRUE]
  BY <1>1, PCFacts, PacketFacts, ZenonT(30)
     DEF Onward, Mine, TypeOK, Caller, SessionPCs, BetweenPCs, ReplyPCs
<1>2. "skip" \in SessionPCs \ BetweenPCs
  BY DEF SessionPCs, BetweenPCs
<1> QED
  BY <1>1, <1>2, PrepareOnward, GotoOnward DEF AfterColumns

LEMMA ReadAnswerStep ==
    OwnInv /\ (ReadPrepared \/ ReadColumn \/ SkipEof \/ SkipRow) => Touched /\ Onward
<1> SUFFICES ASSUME OwnInv, ReadPrepared \/ ReadColumn \/ SkipEof \/ SkipRow
             PROVE  Touched /\ Onward
  OBVIOUS
<1>1. TypeOK /\ me.c \in Conn /\ me.pc \in {"prepared", "columns", "eof", "skip"}
  BY SessionFacts DEF ReadPrepared, ReadColumn, SkipEof, SkipRow, SessionPCs, ReplyPCs, OwnInv
<1>2. SetMore(More) \/ UNCHANGED conn
  BY DEF ReadPrepared, ReadColumn, SkipEof, SkipRow
<1>3. Touched
  BY <1>1, <1>2, SetMoreTouches, UntouchedTouches, GotFacts
<1>4. \/ Failed /\ End(Error)
      \/ IsErr(me.got) /\ End(me.got.kind)
      \/ me' = [me EXCEPT !.pc = "columns", !.left = 1, !.mode = "params", !.got = NoPkt]
      \/ me.pc = "columns" /\ me.left > 1 /\ me' = [me EXCEPT !.left = me.left - 1, !.got = NoPkt]
      \/ Goto("eof") \/ Goto("skip") \/ AfterColumns \/ DiscardResults(More)
  BY DEF ReadPrepared, ReadColumn, SkipEof, SkipRow
<1>5. CASE me' = [me EXCEPT !.pc = "columns", !.left = 1, !.mode = "params", !.got = NoPkt]
  BY <1>1, <1>3, <1>5, ToParameters
<1>6. CASE me.pc = "columns" /\ me.left > 1 /\ me' = [me EXCEPT !.left = me.left - 1, !.got = NoPkt]
  <2> DEFINE l == me.left - 1
  <2>1. l \in Nat
    BY <1>1, <1>6 DEF TypeOK, Caller
  <2>2. me' = [me EXCEPT !.left = l, !.got = NoPkt]
    BY <1>6
  <2> HIDE DEF l
  <2> QED
    BY <1>1, <1>3, <1>6, <2>1, <2>2, ToNextColumn
<1>7. {"eof", "skip"} \subseteq SessionPCs \ BetweenPCs
  BY DEF SessionPCs, BetweenPCs
<1> QED
  BY <1>1, <1>3, <1>4, <1>5, <1>6, <1>7, EndOnward, GotoOnward, AfterColumnsOnward,
     DiscardOnward, GotFacts

LEMMA RowsEndOnward == ASSUME TypeOK, me.c \in Conn, RowsEnd PROVE Touched /\ Onward
<1>1. Touched
  BY SetMoreTouches, GotFacts DEF RowsEnd
<1>2. CASE More
  <2> DEFINE t == me.then
  <2>1. me' = [me EXCEPT !.pc = "rows", !.then = t, !.got = NoPkt, !.rsDone = TRUE, !.mc = TRUE]
    BY <1>2, GotFacts DEF RowsEnd
  <2>2. t \in PCs \cup {"none"}
    BY DEF TypeOK, Caller
  <2> HIDE DEF t
  <2>3. "rows" \in PCs
    BY PCFacts DEF SessionPCs
  <2>4. me' \in Caller /\ Mine /\ me'.pc = "rows"
    BY <2>1, <2>2, <2>3, PacketFacts DEF Mine, TypeOK, Caller
  <2> QED
    BY <1>1, <2>4 DEF Onward, SessionPCs, BetweenPCs
<1>3. CASE ~More
  <2>1. me' = [me EXCEPT !.pc = "finish", !.then = "drain", !.got = NoPkt, !.rsDone = TRUE,
                         !.mc = FALSE]
    BY <1>3, GotFacts DEF RowsEnd
  <2>2. "finish" \in PCs /\ "drain" \in PCs
    BY PCFacts DEF BetweenPCs
  <2>3. me' \in Caller /\ Mine /\ me'.pc = "finish" /\ me'.then = "drain"
    BY <2>1, <2>2, PacketFacts DEF Mine, TypeOK, Caller
  <2> QED
    BY <1>1, <2>3 DEF Onward, BetweenPCs
<1> QED
  BY <1>2, <1>3

LEMMA RowsFailOnward == ASSUME TypeOK, me.c \in Conn, RowsFail PROVE Touched /\ Onward
<1>1. me' \in Caller /\ Mine /\ me'.pc = "finish" /\ me'.then = "drain"
  BY PCFacts, PacketFacts, ZenonT(60) DEF RowsFail, Mine, TypeOK, Caller, BetweenPCs, Errors
<1> QED
  BY <1>1, UntouchedTouches DEF Onward, BetweenPCs, RowsFail

LEMMA RowReadOnward == ASSUME TypeOK, me.c \in Conn, RowRead PROVE Touched /\ Onward
<1> DEFINE r == me.rows + 1
<1>1. me' = [me EXCEPT !.pc = "rows", !.got = NoPkt, !.rows = r] /\ r \in Nat
  BY DEF RowRead, TypeOK, Caller
<1> HIDE DEF r
<1>2. me' \in Caller /\ Mine /\ me'.pc = "rows"
  BY <1>1, PCFacts, PacketFacts DEF Mine, TypeOK, Caller, SessionPCs
<1> QED
  BY <1>2, UntouchedTouches DEF Onward, SessionPCs, BetweenPCs, RowRead

LEMMA ReadRowStep == OwnInv /\ (ReadTextRow \/ ReadBinaryRow) => Touched /\ Onward
<1> SUFFICES ASSUME OwnInv, ReadTextRow \/ ReadBinaryRow PROVE Touched /\ Onward
  OBVIOUS
<1>1. TypeOK /\ me.c \in Conn
  BY SessionFacts DEF ReadTextRow, ReadBinaryRow, SessionPCs, OwnInv
<1>2. \/ IsErr(me.got) /\ CloseRows(me.got.kind) /\ UNCHANGED conn
      \/ RowsEnd \/ RowsFail \/ RowRead
  BY DEF ReadTextRow, ReadBinaryRow
<1>3. CASE IsErr(me.got) /\ CloseRows(me.got.kind) /\ UNCHANGED conn
  BY <1>1, <1>3, GotFacts, CloseRowsOnward, UntouchedTouches
<1> QED
  BY <1>1, <1>2, <1>3, RowsEndOnward, RowsFailOnward, RowReadOnward

LEMMA NextRowStep ==
    OwnInv /\ (NextRow \/ AwaitDone \/ StopScanning) => Touched /\ Onward
<1> SUFFICES ASSUME OwnInv, NextRow \/ AwaitDone \/ StopScanning PROVE Touched /\ Onward
  OBVIOUS
<1>1. TypeOK /\ me.c \in Conn
  BY SessionFacts DEF NextRow, AwaitDone, StopScanning, SessionPCs, OwnInv
<1>2. Touched
  BY <1>1, UntouchedTouches DEF NextRow, AwaitDone, StopScanning
<1>3. \/ CloseRows("none") \/ CloseRows(ErrorOf(me.c)) \/ CloseRows("ErrTooLarge")
      \/ CloseRows("canceled") \/ Goto("next")
  BY DEF NextRow, AwaitDone, StopScanning
<1>4. {ErrorOf(me.c), "ErrTooLarge", "canceled", "none"} \subseteq Errors \cup {"none"}
  BY <1>1, ErrorFacts DEF Errors
<1>5. "next" \in SessionPCs \ BetweenPCs
  BY DEF SessionPCs, BetweenPCs
<1> QED
  BY <1>1, <1>2, <1>3, <1>4, <1>5, CloseRowsOnward, GotoOnward

LEMMA DrainStep == OwnInv /\ Drain => Touched /\ Onward
<1> SUFFICES ASSUME OwnInv, Drain PROVE Touched /\ Onward
  OBVIOUS
<1>1. TypeOK /\ me.c \in Conn
  BY SessionFacts DEF Drain, SessionPCs, BetweenPCs, OwnInv
<1>2. Touched
  BY <1>1, UntouchedTouches DEF Drain
<1>3. \/ End("none") \/ End(ErrorOf(me.c))
      \/ me' = [me EXCEPT !.pc = "skip", !.mode = "closing"]
      \/ me' = [me EXCEPT !.pc = "header", !.mode = "closing"]
  BY DEF Drain
<1>4. ErrorOf(me.c) \in Errors \cup {"none"}
  BY <1>1, ErrorFacts
<1>5. ASSUME NEW p \in {"skip", "header"}, me' = [me EXCEPT !.pc = p, !.mode = "closing"]
      PROVE  Onward
  <2>1. p \in SessionPCs \ BetweenPCs
    BY DEF SessionPCs, BetweenPCs, ReplyPCs
  <2>2. p \in PCs
    BY <2>1, PCFacts
  <2>3. me' \in Caller /\ Mine /\ me'.pc = p
    BY <1>1, <1>5, <2>2 DEF Mine, TypeOK, Caller
  <2> QED
    BY <2>1, <2>3 DEF Onward
<1> QED
  BY <1>1, <1>2, <1>3, <1>4, <1>5, EndOnward

LEMMA CloseStmtStep == OwnInv /\ (CloseStmt \/ EndTx) => Touched /\ Onward
<1> SUFFICES ASSUME OwnInv, CloseStmt \/ EndTx PROVE Touched /\ Onward
  OBVIOUS
<1>1. TypeOK /\ me.c \in Conn /\ Free
  <2>1. me.pc \in BetweenPCs /\ me.pc \in SessionPCs
    BY DEF CloseStmt, EndTx, BetweenPCs, SessionPCs
  <2> QED
    BY <2>1, SessionFacts DEF OwnInv, CallerInv, Free
<1>2. CASE me' = [me EXCEPT !.pc = "release"] /\ UNCHANGED conn
  <2>1. me' \in Caller /\ Mine /\ me'.pc = "release"
    BY <1>1, <1>2, PCFacts DEF Mine, TypeOK, Caller, BetweenPCs
  <2> QED
    BY <1>1, <1>2, <2>1, UntouchedTouches DEF Onward, BetweenPCs
<1>3. CASE /\ conn' = [conn EXCEPT ![me.c].seq = 0]
           /\ me' = [me EXCEPT !.pc = "write", !.cmd = "stmtClose", !.left = 1,
                               !.then = "release"]
  <2>1. "write" \in PCs /\ "release" \in PCs /\ "stmtClose" \in Cmd /\ "stmtClose" \in Sent
    BY PCFacts DEF BetweenPCs, Cmd, Sent
  <2>2. me' \in Caller /\ Mine /\ me'.pc = "write" /\ me'.cmd \in Sent /\ me'.left # 0
        /\ me'.then = "release"
    <3> DEFINE l == 1
    <3>1. me' = [me EXCEPT !.pc = "write", !.cmd = "stmtClose", !.left = l, !.then = "release"]
          /\ me \in Caller /\ l \in Nat /\ l # 0
      BY <1>1, <1>3 DEF TypeOK
    <3> HIDE DEF l
    <3> QED
      BY <2>1, <3>1 DEF Mine, Caller
  <2>3. 0 \in 0 .. SeqMod - 1
    OBVIOUS
  <2> QED
    BY <1>1, <1>3, <2>2, <2>3, SetSeq DEF Onward
<1>4. CASE me' = [me EXCEPT !.pc = "send", !.mode = "endTx"] /\ UNCHANGED conn
  <2>1. me' \in Caller /\ Mine /\ me'.pc = "send"
    BY <1>1, <1>4, PCFacts DEF Mine, TypeOK, Caller, SessionPCs
  <2> QED
    BY <1>1, <1>4, <2>1, UntouchedTouches DEF Onward, BetweenPCs, SessionPCs
<1> QED
  BY <1>2, <1>3, <1>4 DEF CloseStmt, EndTx

\* What the steps of a session have in common.
SessionAction ==
    \/ Send \/ SendExecute \/ WriteFailed
    \/ ReadResultOK \/ ReadHeader \/ ReadPrepared \/ ReadColumn \/ SkipEof \/ SkipRow
    \/ NextRow \/ ReadTextRow \/ ReadBinaryRow \/ AwaitDone \/ StopScanning \/ Drain
    \/ CloseStmt \/ EndTx

\* They touch the caller's connection and go on within the session.
LEMMA SessionTouches ==
    ASSUME OwnInv, SessionAction
    PROVE  Touched /\ Onward /\ me.c \in Conn /\ me.n # NoCall /\ St = "ready"
<1>1. Touched /\ Onward
  BY SendStep, SendExecuteStep, WriteFailedStep, ReadResultOKStep, ReadHeaderStep,
     ReadAnswerStep, ReadRowStep, NextRowStep, DrainStep, CloseStmtStep DEF SessionAction
<1>2. me.c \in Conn /\ me.n # NoCall /\ St = "ready"
  <2>1. CASE WriteFailed
    BY <2>1 DEF WriteFailed, OwnInv, CallerInv, St
  <2>2. CASE ~WriteFailed
    <3>1. me.pc \in SessionPCs
      BY <2>2 DEF SessionAction, Send, SendExecute, ReadResultOK, ReadHeader, ReadPrepared,
         ReadColumn, SkipEof, SkipRow, NextRow, ReadTextRow, ReadBinaryRow, AwaitDone,
         StopScanning, Drain, CloseStmt, EndTx, SessionPCs, BetweenPCs, ReplyPCs
    <3> QED
      BY <3>1, SessionFacts
  <2> QED
    BY <2>1, <2>2
<1> QED
  BY <1>1, <1>2

LEMMA SessionKept == OwnInv /\ SessionAction => OwnInv'
<1> SUFFICES ASSUME OwnInv, SessionAction PROVE OwnInv'
  OBVIOUS
<1>1. Touched /\ Onward /\ me.c \in Conn /\ me.n # NoCall /\ St = "ready"
  BY SessionTouches
<1>2. UNCHANGED <<net, done, tls, idle, srvVars>>
  BY DEF SessionAction, Send, SendExecute, WriteFailed, ReadResultOK, ReadHeader,
     ReadPrepared, ReadColumn, SkipEof, SkipRow, NextRow, ReadTextRow, ReadBinaryRow,
     AwaitDone, StopScanning, Drain, CloseStmt, EndTx
<1>3. me' \in Caller /\ CallerInv' /\ \A c \in Conn : LinkInv(c)'
  BY <1>1, <1>2, SessionStep
<1>4. TypeOK'
  BY <1>1, <1>2, <1>3 DEF TypeOK, OwnInv, Touched, srvVars
<1> QED
  BY <1>3, <1>4 DEF OwnInv

-----------------------------------------------------------------------------
(* Reading, writing and the watcher.                                        *)

LEMMA CloseNetType == \A n \in Socket : CloseNet(n) \in Socket
<1>1. <<>> \in Seq(ServerFrame)
  OBVIOUS
<1> QED
  BY <1>1 DEF CloseNet, Socket

\* A cleanup closes the connection and touches nothing else of it.
LEMMA CleanupTouches ==
    ASSUME TypeOK, me.c \in Conn, Cleanup(me.c)
    PROVE  /\ Touched /\ conn'[me.c].closed = TRUE
           /\ net' \in [Conn -> Socket]
<1> DEFINE y == conn[me.c]
           x == [y EXCEPT !.closed = TRUE]
           n == CloseNet(net[me.c])
<1>1. y \in Connection /\ n \in Socket
  BY CloseNetType DEF TypeOK
<1>2. conn' = [conn EXCEPT ![me.c] = x] /\ net' = [net EXCEPT ![me.c] = n]
  BY DEF Cleanup
<1> HIDE DEF y, n
<1>3. x \in Connection /\ SameLink(x, y) /\ x.closed = TRUE
  BY <1>1 DEF Connection, SameLink
<1> HIDE DEF x
<1> QED
  BY <1>1, <1>2, <1>3, ConnUpdate, NetUpdate DEF Touched, y

LEMMA ReadingFacts ==
    ASSUME OwnInv, me.pc \in ReadPCs
    PROVE  /\ TypeOK /\ me \in Caller /\ me.c \in Conn /\ me.n # NoCall
           /\ St \in {"dialled", "ready"}
           /\ me.pc \in HandshakePCs \/ me.pc \in SessionPCs \ BetweenPCs
<1>1. me.pc \in HandshakePCs \/ me.pc \in SessionPCs \ BetweenPCs
  BY DEF ReadPCs, HandshakePCs, SessionPCs, ReplyPCs, BetweenPCs
<1>2. me.pc \notin {"idle", "conn", "connectFailed"}
  BY DEF ReadPCs
<1> QED
  BY <1>1, <1>2 DEF OwnInv, CallerInv, TypeOK

\* A step that reads leaves the goroutine where it is.
LEMMA ReadStep ==
    ASSUME OwnInv, me.pc \in ReadPCs, Touched, me' \in Caller, Mine, me'.pc = me.pc,
           idle' = idle
    PROVE  CallerInv' /\ \A c \in Conn : LinkInv(c)'
<1>1. TypeOK /\ me.c \in Conn /\ me.n # NoCall /\ St \in {"dialled", "ready"}
  BY ReadingFacts
<1>2. conn'[me'.c].st = St /\ me'.c = me.c /\ me'.n = me.n
  BY DEF Touched, SameLink, Mine, St
<1>3. me.pc \notin {"idle", "conn", "connectFailed", "dial", "write", "failed", "finish"}
      /\ me.pc \notin BetweenPCs
  BY DEF ReadPCs, BetweenPCs
<1>4. /\ me.pc \in HandshakePCs => St = "dialled"
      /\ me.pc \in SessionPCs => St = "ready"
  BY DEF OwnInv, CallerInv
<1>5. CallerInv'
  BY <1>1, <1>2, <1>3, <1>4 DEF CallerInv, St
<1> QED
  BY <1>1, <1>2, <1>5, TouchedLinks

LEMMA GotEffect ==
    ASSUME TypeOK, NEW p \in Packet, Got(p)
    PROVE  me' \in Caller /\ Mine /\ me'.pc = me.pc
BY PacketFacts DEF TypeOK, Caller, Mine, Got

LEMMA FillKept == OwnInv /\ Fill /\ UNCHANGED <<tls, idle, srvVars>> => OwnInv'
<1> SUFFICES ASSUME OwnInv, Fill, UNCHANGED <<tls, idle, srvVars>> PROVE OwnInv'
  OBVIOUS
<1>1. me.pc \in ReadPCs /\ UNCHANGED <<me, done>>
  BY DEF Fill, Reading
<1>2. TypeOK /\ me \in Caller /\ me.c \in Conn
  BY <1>1, ReadingFacts
<1> DEFINE y == conn[me.c]
           n == net[me.c]
<1>3. PICK k \in DOMAIN n.out :
         /\ conn' = [conn EXCEPT ![me.c].buf = SubSeq(n.out, 1, k)]
         /\ net' = [net EXCEPT ![me.c].out = SubSeq(@, k + 1, Len(@))]
  BY DEF Fill
<1>4. y \in Connection /\ n \in Socket
  BY <1>2 DEF TypeOK
<1>5. n.out \in Seq(ServerFrame) /\ k \in 1 .. Len(n.out) /\ Len(n.out) \in Nat
  BY <1>3, <1>4, SMTT(30) DEF Socket
<1> DEFINE s == SubSeq(n.out, 1, k)
           t == SubSeq(n.out, k + 1, Len(n.out))
           x == [y EXCEPT !.buf = s]
           m == [n EXCEPT !.out = t]
<1>6. s \in Seq(ServerFrame) /\ t \in Seq(ServerFrame)
  BY <1>5
<1>7. conn' = [conn EXCEPT ![me.c] = x] /\ net' = [net EXCEPT ![me.c] = m]
  BY <1>3
<1> HIDE DEF y, n, s, t
<1>8. x \in Connection /\ SameLink(x, y) /\ m \in Socket
  BY <1>4, <1>6 DEF Connection, SameLink, Socket
<1> HIDE DEF x, m
<1>9. Touched /\ net' \in [Conn -> Socket]
  BY <1>2, <1>7, <1>8, ConnUpdate, NetUpdate DEF Touched, y
<1>10. CallerInv' /\ \A c \in Conn : LinkInv(c)'
  BY <1>1, <1>2, <1>9, ReadStep DEF Mine
<1> QED
  BY <1>1, <1>2, <1>9, <1>10 DEF OwnInv, TypeOK, Touched, srvVars

LEMMA ReadFailsKept == OwnInv /\ ReadFails /\ UNCHANGED <<tls, idle, srvVars>> => OwnInv'
<1> SUFFICES ASSUME OwnInv, ReadFails, UNCHANGED <<tls, idle, srvVars>> PROVE OwnInv'
  OBVIOUS
<1>1. me.pc \in ReadPCs /\ Cleanup(me.c) /\ Got(Err(CanceledOr(me.c, "ErrInvalidConn")))
      /\ UNCHANGED done
  BY DEF ReadFails, Reading
<1>2. TypeOK /\ me.c \in Conn
  BY <1>1, ReadingFacts
<1>3. Err(CanceledOr(me.c, "ErrInvalidConn")) \in Packet
  BY <1>2, ErrorFacts, PacketFacts DEF Errors
<1>4. me' \in Caller /\ Mine /\ me'.pc = me.pc
  BY <1>1, <1>2, <1>3, GotEffect
<1>5. Touched /\ net' \in [Conn -> Socket]
  BY <1>1, <1>2, CleanupTouches
<1>6. CallerInv' /\ \A c \in Conn : LinkInv(c)'
  BY <1>1, <1>4, <1>5, ReadStep
<1> QED
  BY <1>1, <1>2, <1>4, <1>5, <1>6 DEF OwnInv, TypeOK, Touched, srvVars

LEMMA ReadFrameKept == OwnInv /\ ReadFrame /\ UNCHANGED <<tls, idle, srvVars>> => OwnInv'
<1> SUFFICES ASSUME OwnInv, ReadFrame, UNCHANGED <<tls, idle, srvVars>> PROVE OwnInv'
  OBVIOUS
<1>1. me.pc \in ReadPCs /\ Busy(me.c) /\ UNCHANGED done
  BY DEF ReadFrame, Reading
<1>2. TypeOK /\ me \in Caller /\ me.c \in Conn
  BY <1>1, ReadingFacts
<1> DEFINE y == conn[me.c]
           f == Head(y.buf)
           t == Tail(y.buf)
           q == Next8(f.seq)
           pkt == IF me.part = NoPkt THEN [kind |-> f.kind, own |-> f.own, arg |-> f.arg]
                  ELSE me.part
           bad == me.bad \/ OutOfSync(f)
           x == [y EXCEPT !.buf = t, !.seq = q]
           z == [y EXCEPT !.buf = t, !.seq = q, !.closed = TRUE]
           n == CloseNet(net[me.c])
<1>3. y \in Connection /\ n \in Socket
  BY <1>2, CloseNetType DEF TypeOK
<1>4. y.buf \in Seq(ServerFrame) /\ y.buf # <<>>
  BY <1>1, <1>3 DEF Connection, Busy
<1>5. f \in ServerFrame /\ t \in Seq(ServerFrame)
  BY <1>4
<1>6. q \in 0 .. SeqMod - 1
  BY <1>5, Next8Range DEF ServerFrame
<1>7. pkt \in Packet
  BY <1>2, <1>5 DEF ServerFrame, Packet, Caller
<1>8. bad \in BOOLEAN
  BY <1>2 DEF Caller, OutOfSync
<1>9. \/ conn' = [conn EXCEPT ![me.c] = x]
      \/ conn' = [conn EXCEPT ![me.c] = z]
  BY ZenonT(60) DEF ReadFrame
<1>10. \/ net' = [net EXCEPT ![me.c] = n]
       \/ UNCHANGED net
  BY DEF ReadFrame
<1>11. \/ Got(Err("ErrPktSyncMul")) \/ Got(Err("ErrInvalidConn")) \/ Got(Err("ErrPktSync"))
       \/ Got(pkt) \/ me' = [me EXCEPT !.part = pkt, !.bad = bad]
  BY DEF ReadFrame
<1> HIDE DEF y, f, t, q, pkt, bad, n
<1>12. x \in Connection /\ SameLink(x, y) /\ z \in Connection /\ SameLink(z, y)
  BY <1>3, <1>5, <1>6 DEF Connection, SameLink
<1> HIDE DEF x, z
<1>13. Touched
  BY <1>2, <1>9, <1>12, ConnUpdate DEF Touched, y
<1>14. net' \in [Conn -> Socket]
  BY <1>2, <1>3, <1>10, NetUpdate DEF TypeOK
<1>15. me' \in Caller /\ Mine /\ me'.pc = me.pc
  <2>1. Err("ErrPktSyncMul") \in Packet /\ Err("ErrInvalidConn") \in Packet
        /\ Err("ErrPktSync") \in Packet
    BY PacketFacts DEF Errors
  <2>2. CASE me' = [me EXCEPT !.part = pkt, !.bad = bad]
    BY <1>2, <1>7, <1>8, <2>2 DEF Caller, Mine
  <2> QED
    BY <1>2, <1>7, <1>11, <2>1, <2>2, GotEffect
<1>16. CallerInv' /\ \A c \in Conn : LinkInv(c)'
  BY <1>1, <1>13, <1>15, ReadStep
<1> QED
  BY <1>1, <1>2, <1>13, <1>14, <1>15, <1>16 DEF OwnInv, TypeOK, Touched, srvVars

\* A packet is written until no frame is left of it.
LEMMA WriteFacts ==
    ASSUME OwnInv, me.pc = "write"
    PROVE  /\ TypeOK /\ me \in Caller /\ me.c \in Conn /\ me.n # NoCall /\ me.left \in Nat \ {0} /\ me.cmd \in Sent
           /\ \/ St = "dialled" /\ me.then \in HandshakePCs
              \/ St = "ready" /\ me.then \in ReplyPCs \cup {"release"}
           /\ me.then = "release" => Free
BY DEF OwnInv, CallerInv, TypeOK, Caller, Free

LEMMA WriteFrameKept == OwnInv /\ WriteFrame /\ UNCHANGED <<tls, idle, srvVars>> => OwnInv'
<1> SUFFICES ASSUME OwnInv, WriteFrame, UNCHANGED <<tls, idle, srvVars>> PROVE OwnInv'
  OBVIOUS
<1>1. me.pc = "write" /\ UNCHANGED done
  BY DEF WriteFrame
<1>2. /\ TypeOK /\ me \in Caller /\ me.c \in Conn /\ me.n # NoCall /\ me.left \in Nat \ {0} /\ me.cmd \in Sent
      /\ \/ St = "dialled" /\ me.then \in HandshakePCs
         \/ St = "ready" /\ me.then \in ReplyPCs \cup {"release"}
      /\ me.then = "release" => Free
  BY <1>1, WriteFacts
<1> DEFINE y == conn[me.c]
           n == net[me.c]
           q == Next8(y.seq)
           f == Frame(me.left = 1)
           i == IF n.up = "gone" THEN n.in ELSE Append(n.in, f)
           l == me.left - 1
           p == IF me.left = 1 THEN me.then ELSE "write"
           x == [y EXCEPT !.seq = q]
           m == [n EXCEPT !.in = i]
<1>3. y \in Connection /\ n \in Socket
  BY <1>2 DEF TypeOK
<1>4. q \in 0 .. SeqMod - 1
  BY <1>3, Next8Range DEF Connection
<1>5. f \in ClientFrame
  BY <1>2, <1>3 DEF Frame, ClientFrame, Connection, Caller
<1>6. i \in Seq(ClientFrame)
  BY <1>3, <1>5 DEF Socket
<1>7. l \in Nat /\ (l = 0 <=> me.left = 1) /\ p \in PCs
  BY <1>2, PCFacts DEF BetweenPCs
<1>8. /\ conn' = [conn EXCEPT ![me.c] = x] /\ net' = [net EXCEPT ![me.c] = m]
      /\ me' = [me EXCEPT !.left = l, !.pc = p]
  BY <1>1 DEF WriteFrame
<1> HIDE DEF y, n, q, f, i, l
<1>9. x \in Connection /\ SameLink(x, y) /\ m \in Socket
  BY <1>3, <1>4, <1>6 DEF Connection, SameLink, Socket
<1> HIDE DEF x, m
<1>10. Touched /\ net' \in [Conn -> Socket]
  BY <1>2, <1>8, <1>9, ConnUpdate, NetUpdate, ZenonT(30) DEF Touched, y
<1>11. me' \in Caller /\ Mine /\ me'.pc = p /\ me'.left = l /\ me'.then = me.then
       /\ me'.cmd = me.cmd
  <2> HIDE DEF p
  <2> QED
    BY <1>2, <1>7, <1>8 DEF Caller, Mine
<1>12. conn'[me'.c].st = St /\ me'.c = me.c /\ me'.n = me.n
  BY <1>10, <1>11 DEF Touched, SameLink, Mine, St
<1>13. me.then = "release" => conn'[me.c].closed \/ ~conn'[me.c].watching
  BY <1>2, <1>10 DEF Touched, SameLink, Free
<1>14. CallerInv'
  <2>1. CASE me.left = 1
    BY <1>2, <1>11, <1>12, <1>13, <2>1
       DEF CallerInv, St, HandshakePCs, ReplyPCs, BetweenPCs, SessionPCs
  <2>2. CASE me.left # 1
    BY <1>2, <1>7, <1>11, <1>12, <1>13, <2>2
       DEF CallerInv, St, HandshakePCs, ReplyPCs, BetweenPCs, SessionPCs
  <2> QED
    BY <2>1, <2>2
<1>15. \A c \in Conn : LinkInv(c)'
  BY <1>2, <1>10, <1>12, TouchedLinks
<1> QED
  BY <1>1, <1>2, <1>10, <1>11, <1>14, <1>15 DEF OwnInv, TypeOK, Touched, srvVars

LEMMA WriteFailsKept ==
    OwnInv /\ (\E n \in {0, 1} : WriteFails(n)) /\ UNCHANGED <<tls, idle, srvVars>> => OwnInv'
<1> SUFFICES ASSUME OwnInv, NEW n \in {0, 1}, WriteFails(n), UNCHANGED <<tls, idle, srvVars>>
             PROVE  OwnInv'
  OBVIOUS
<1>1. me.pc = "write" /\ UNCHANGED done /\ Cleanup(me.c)
  BY DEF WriteFails
<1>2. TypeOK /\ me \in Caller /\ me.c \in Conn /\ me.n # NoCall /\ St \in {"dialled", "ready"}
  BY <1>1, WriteFacts
<1> DEFINE e == IF n = 0 THEN "errBadConnNoWrite" ELSE "ErrWrite"
           p == Err(CanceledOr(me.c, e))
<1>3. p \in Packet /\ IsErr(p)
  <2>1. e \in Errors
    BY DEF Errors
  <2> HIDE DEF e
  <2> QED
    BY <1>2, <2>1, ErrorFacts, PacketFacts
<1>4. me' = [me EXCEPT !.pc = "failed", !.got = p]
  BY DEF WriteFails
<1> HIDE DEF p
<1>5. me' \in Caller /\ Mine /\ me'.pc = "failed" /\ me'.got = p
  BY <1>2, <1>3, <1>4, PCFacts DEF Caller, Mine
<1>6. Touched /\ net' \in [Conn -> Socket] /\ conn'[me.c].closed
  BY <1>1, <1>2, CleanupTouches
<1>7. conn'[me'.c].st = St /\ me'.c = me.c /\ me'.n = me.n
  BY <1>5, <1>6 DEF Touched, SameLink, Mine, St
<1>8. IsErr(me'.got)
  BY <1>3, <1>5
<1>9. CallerInv'
  BY <1>2, <1>5, <1>6, <1>7, <1>8
     DEF CallerInv, St, HandshakePCs, ReplyPCs, BetweenPCs, SessionPCs, IsErr
<1>10. \A c \in Conn : LinkInv(c)'
  BY <1>2, <1>6, <1>7, TouchedLinks
<1> QED
  BY <1>1, <1>2, <1>5, <1>6, <1>9, <1>10 DEF OwnInv, TypeOK, Touched, srvVars

\* The links after a step that changes one connection and leaves the caller
\* where it is.
LEMMA OneLink ==
    ASSUME OwnInv, NEW c \in Conn, \A d \in Conn : d # c => conn'[d] = conn[d],
           LinkInv(c)', me'.c = me.c, me'.n = me.n, idle' = idle
    PROVE  \A d \in Conn : LinkInv(d)'
<1> SUFFICES ASSUME NEW d \in Conn, d # c PROVE LinkInv(d)'
  OBVIOUS
<1>1. LinkInv(d)
  BY DEF OwnInv
<1> QED
  BY <1>1 DEF LinkInv, Busy

LEMMA FinishKept == OwnInv /\ Finish /\ UNCHANGED <<tls, idle, srvVars>> => OwnInv'
<1> SUFFICES ASSUME OwnInv, Finish, UNCHANGED <<tls, idle, srvVars>> PROVE OwnInv'
  OBVIOUS
<1>1. me.pc = "finish" /\ UNCHANGED <<net, done>> /\ me' = [me EXCEPT !.pc = me.then]
  BY DEF Finish
<1>2. /\ TypeOK /\ me \in Caller /\ me.c \in Conn /\ me.n # NoCall
      /\ \/ me.then = "connectFailed" /\ St = "dialled" /\ conn[me.c].closed
         \/ me.then \in BetweenPCs /\ St = "ready"
  BY <1>1 DEF OwnInv, CallerInv, TypeOK
<1>3. me' \in Caller /\ Mine /\ me'.pc = me.then
  <2>1. me.then \in PCs
    BY <1>2, PCFacts
  <2> QED
    BY <1>1, <1>2, <2>1 DEF Caller, Mine
<1> DEFINE y == conn[me.c]
           x == [y EXCEPT !.watching = FALSE, !.watcher = "idle", !.ctx = NoCall]
<1>4. y \in Connection
  BY <1>2 DEF TypeOK
<1>5. \/ UNCHANGED conn /\ Free
      \/ conn' = [conn EXCEPT ![me.c] = x] /\ y.watcher = "watching" /\ y.watching
  <2>1. CASE UNCHANGED conn
    BY <2>1 DEF Finish, Free
  <2>2. CASE /\ conn[me.c].watching /\ conn[me.c].watcher = "watching"
             /\ conn' = [conn EXCEPT ![me.c].watching = FALSE,
                                     ![me.c].watcher = "idle", ![me.c].ctx = NoCall]
    <3>1. conn' = [conn EXCEPT ![me.c] = x]
      BY <1>2, <2>2 DEF TypeOK
    <3> QED
      BY <2>2, <3>1
  <2> QED
    BY <2>1, <2>2 DEF Finish
<1> HIDE DEF y
<1>6. /\ x \in Connection /\ x.st = y.st /\ x.closed = y.closed /\ ~x.watching
      /\ x.watcher = "idle" /\ x.ctx = NoCall /\ x.chan = y.chan /\ x.canceled = y.canceled
  BY <1>4, CallFacts DEF Connection
<1> HIDE DEF x
<1>7. /\ conn' \in [Conn -> Connection]
      /\ \A d \in Conn : d # me.c => conn'[d] = conn[d]
      /\ conn'[me.c].st = St /\ conn'[me.c].closed = y.closed
      /\ y.closed \/ ~conn'[me.c].watching
  <2>1. CASE UNCHANGED conn /\ Free
    BY <1>2, <2>1 DEF TypeOK, St, Free, y
  <2>2. CASE conn' = [conn EXCEPT ![me.c] = x]
    BY <1>2, <1>6, <2>2, ConnUpdate DEF St, y
  <2> QED
    BY <1>5, <2>1, <2>2
<1>8. LinkInv(me.c)'
  <2>1. LinkInv(me.c) /\ me'.c = me.c /\ me'.n = me.n
    BY <1>2, <1>3 DEF OwnInv, Mine
  <2>2. CASE UNCHANGED conn
    BY <2>1, <2>2 DEF LinkInv
  <2>3. CASE conn' = [conn EXCEPT ![me.c] = x] /\ y.watcher = "watching" /\ y.watching
    <3>1. conn'[me.c] = x
      BY <1>2, <1>6, <2>3, ConnUpdate
    <3>2. y.st \in {"dialled", "ready"}
      BY <1>2 DEF St, y
    <3> QED
      BY <1>6, <2>1, <2>3, <3>1, <3>2 DEF LinkInv, y
  <2> QED
    BY <1>5, <2>2, <2>3
<1>9. \A c \in Conn : LinkInv(c)'
  BY <1>2, <1>3, <1>7, <1>8, OneLink DEF Mine
<1>10. CallerInv'
  BY <1>2, <1>3, <1>7
     DEF CallerInv, St, Mine, HandshakePCs, ReplyPCs, BetweenPCs, SessionPCs, y
<1> QED
  BY <1>1, <1>2, <1>3, <1>7, <1>9, <1>10 DEF OwnInv, TypeOK, srvVars

\* The context is handed to the watcher, where it has none.
LEMMA HandContextKept ==
    ASSUME OwnInv, NEW p \in {"send", "execute"}, HandContext(p), me.c \in Conn, me.n # NoCall,
           St = "ready", Free, UNCHANGED <<done, tls, idle, srvVars>>
    PROVE  OwnInv'
<1>1. TypeOK /\ me \in Caller /\ LinkInv(me.c) /\ me.n \in CallOrNone
  BY DEF OwnInv, TypeOK, Caller
<1> DEFINE y == conn[me.c]
           k == me.n
           x == [y EXCEPT !.watching = TRUE, !.chan = k]
<1>2. y \in Connection /\ k \in CallOrNone
  BY <1>1 DEF TypeOK
<1>3. conn' = [conn EXCEPT ![me.c] = x]
  BY <1>1 DEF HandContext, TypeOK
<1>4. me' = [me EXCEPT !.pc = p] /\ UNCHANGED net
  BY DEF HandContext
<1> HIDE DEF y, k
<1>5. /\ x \in Connection /\ x.st = y.st /\ x.closed = y.closed /\ x.watching
      /\ x.watcher = y.watcher /\ x.ctx = y.ctx /\ x.chan = k /\ x.canceled = y.canceled
  BY <1>2 DEF Connection
<1> HIDE DEF x
<1>6. me' \in Caller /\ Mine /\ me'.pc = p
  <2>1. p \in PCs
    BY PCFacts DEF ReplyPCs, SessionPCs
  <2> QED
    BY <1>1, <1>4, <2>1 DEF Caller, Mine
<1>7. conn' \in [Conn -> Connection] /\ conn'[me.c] = x
      /\ \A d \in Conn : d # me.c => conn'[d] = conn[d]
  BY <1>1, <1>3, <1>5, ConnUpdate
<1>8. LinkInv(me.c)'
  BY <1>1, <1>5, <1>6, <1>7 DEF LinkInv, Mine, St, Free, y, k
<1>9. \A c \in Conn : LinkInv(c)'
  BY <1>6, <1>7, <1>8, OneLink DEF Mine
<1>10. CallerInv'
  BY <1>5, <1>6, <1>7
     DEF CallerInv, St, Mine, HandshakePCs, ReplyPCs, BetweenPCs, SessionPCs, y
<1> QED
  BY <1>1, <1>4, <1>6, <1>7, <1>9, <1>10 DEF OwnInv, TypeOK, srvVars

LEMMA BetweenFacts ==
    ASSUME OwnInv, me.pc \in BetweenPCs
    PROVE  TypeOK /\ me \in Caller /\ me.c \in Conn /\ me.n # NoCall /\ St = "ready" /\ Free
<1>1. me.pc \in SessionPCs
  BY DEF SessionPCs
<1> QED
  BY <1>1, SessionFacts DEF OwnInv, CallerInv, Free

\* A step of a session that leaves the other variables alone.
LEMMA OnwardKept ==
    ASSUME OwnInv, me.c \in Conn, me.n # NoCall, St = "ready", Touched, Onward,
           net' \in [Conn -> Socket], UNCHANGED <<done, tls, idle, srvVars>>
    PROVE  OwnInv'
<1>1. me' \in Caller /\ CallerInv' /\ \A c \in Conn : LinkInv(c)'
  BY SessionStep
<1> QED
  BY <1>1 DEF OwnInv, TypeOK, Touched, srvVars

LEMMA WatchKept == OwnInv /\ Watch => OwnInv'
<1> SUFFICES ASSUME OwnInv, Watch PROVE OwnInv'
  OBVIOUS
<1>1. me.pc = "watch" /\ UNCHANGED <<done, tls, idle, srvVars>>
  BY DEF Watch
<1>2. TypeOK /\ me \in Caller /\ me.c \in Conn /\ me.n # NoCall /\ St = "ready" /\ Free
  BY <1>1, BetweenFacts DEF BetweenPCs
<1>3. {"release", "send"} \subseteq PCs /\ {"ErrBadConn", "canceled"} \subseteq Errors
  BY PCFacts DEF BetweenPCs, SessionPCs, Errors
<1>4. ASSUME NEW e \in {"ErrBadConn", "canceled"}, me' = [me EXCEPT !.pc = "release", !.err = e],
             UNCHANGED <<conn, net>>
      PROVE  OwnInv'
  <2>1. me' \in Caller /\ Mine /\ me'.pc = "release"
    BY <1>2, <1>3, <1>4 DEF Caller, Mine
  <2>2. Onward
    BY <1>2, <2>1 DEF Onward, BetweenPCs
  <2> QED
    BY <1>1, <1>2, <1>4, <2>2, UntouchedTouches, OnwardKept DEF TypeOK
<1>5. CASE Cleanup(me.c) /\ me' = [me EXCEPT !.pc = "send"]
  <2>1. me' \in Caller /\ Mine /\ me'.pc = "send"
    BY <1>2, <1>3, <1>5 DEF Caller, Mine
  <2>2. Onward
    BY <2>1 DEF Onward, SessionPCs, BetweenPCs
  <2> QED
    BY <1>1, <1>2, <1>5, <2>2, CleanupTouches, OnwardKept
<1>6. CASE HandContext("send")
  BY <1>1, <1>2, <1>6, HandContextKept
<1> QED
  BY <1>4, <1>5, <1>6 DEF Watch, WatchCancel

LEMMA UseStmtKept == OwnInv /\ UseStmt => OwnInv'
<1> SUFFICES ASSUME OwnInv, UseStmt PROVE OwnInv'
  OBVIOUS
<1>1. me.pc = "stmt" /\ UNCHANGED <<done, tls, idle, srvVars>>
  BY DEF UseStmt
<1>2. TypeOK /\ me \in Caller /\ me.c \in Conn /\ me.n # NoCall /\ St = "ready" /\ Free
  BY <1>1, BetweenFacts DEF BetweenPCs
<1>3. CASE me' = [me EXCEPT !.pc = "closeStmt", !.err = "canceled"] /\ UNCHANGED <<conn, net>>
  <2>1. "closeStmt" \in PCs /\ "canceled" \in Errors
    BY PCFacts DEF BetweenPCs, SessionPCs, Errors
  <2>2. me' \in Caller /\ Mine /\ me'.pc = "closeStmt"
    BY <1>2, <1>3, <2>1 DEF Caller, Mine
  <2>3. Onward
    BY <1>2, <2>2 DEF Onward, BetweenPCs
  <2> QED
    BY <1>1, <1>2, <1>3, <2>3, UntouchedTouches, OnwardKept DEF TypeOK
<1>4. CASE HandContext("execute")
  BY <1>1, <1>2, <1>4, HandContextKept
<1> QED
  BY <1>3, <1>4 DEF UseStmt

-----------------------------------------------------------------------------
(* The watchers, the server and the clock.                                  *)

\* Where the caller is does not depend on what its watcher does.
LEMMA CallerUnmoved ==
    ASSUME CallerInv, UNCHANGED me, NEW c \in Conn, NEW x,
           conn'[c] = x, \A d \in Conn : d # c => conn'[d] = conn[d],
           x.st = conn[c].st, x.watching = conn[c].watching, conn[c].closed => x.closed,
           me.c \in Conn \cup {NoConn}
    PROVE  CallerInv'
<1>1. CASE me.c = c
  BY <1>1 DEF CallerInv, St, IsErr
<1>2. CASE me.c \in Conn /\ me.c # c
  BY <1>2 DEF CallerInv, St, IsErr
<1>3. CASE me.c \notin Conn
  <2>1. me.c = NoConn /\ me.pc \in {"idle", "conn", "connectFailed"}
    BY <1>3 DEF CallerInv
  <2> QED
    BY <2>1 DEF CallerInv, St, HandshakePCs, SessionPCs, ReplyPCs, BetweenPCs
<1> QED
  BY <1>1, <1>2, <1>3

LEMMA WatcherKept == ASSUME OwnInv, NEW c \in Conn, WatcherStep(c) PROVE OwnInv'
<1>1. TypeOK /\ me \in Caller /\ CallerInv /\ LinkInv(c)
      /\ UNCHANGED <<me, done, tls, idle, srvVars>>
  BY DEF OwnInv, TypeOK, WatcherStep, WatcherTakes, WatcherCancels, WatcherEnds
<1> DEFINE y == conn[c]
           n == CloseNet(net[c])
           k == y.chan
           w == y.ctx
           x1 == [y EXCEPT !.watcher = "watching", !.chan = NoCall, !.ctx = k]
           x2 == [y EXCEPT !.watcher = "idle", !.ctx = NoCall, !.canceled = w, !.closed = TRUE]
           x3 == [y EXCEPT !.watcher = "ended", !.ctx = NoCall]
<1>2. y \in Connection /\ n \in Socket /\ k \in CallOrNone /\ w \in CallOrNone
      /\ NoCall \in CallOrNone
  BY <1>1, CloseNetType, CallFacts DEF TypeOK, Connection
<1>3. \/ /\ conn' = [conn EXCEPT ![c] = x1] /\ UNCHANGED net
         /\ y.watcher = "idle" /\ k # NoCall
      \/ /\ conn' = [conn EXCEPT ![c] = x2] /\ net' = [net EXCEPT ![c] = n]
         /\ y.watcher = "watching"
      \/ /\ conn' = [conn EXCEPT ![c] = x3] /\ UNCHANGED net
         /\ y.watcher \in {"idle", "watching"} /\ y.closed
  <2>1. CASE WatcherTakes(c)
    BY <1>1, <2>1 DEF WatcherTakes, TypeOK
  <2>2. CASE WatcherCancels(c)
    BY <1>1, <2>2 DEF WatcherCancels, TypeOK
  <2>3. CASE WatcherEnds(c)
    BY <1>1, <2>3 DEF WatcherEnds, TypeOK
  <2> QED
    BY <2>1, <2>2, <2>3 DEF WatcherStep
<1> HIDE DEF y, n, k, w
<1>4. /\ x1 \in Connection /\ x1.st = y.st /\ x1.watching = y.watching /\ x1.closed = y.closed
      /\ x1.watcher = "watching" /\ x1.chan = NoCall /\ x1.ctx = k /\ x1.canceled = y.canceled
  BY <1>2 DEF Connection
<1>5. /\ x2 \in Connection /\ x2.st = y.st /\ x2.watching = y.watching /\ x2.closed = TRUE
  BY <1>2 DEF Connection
<1>6. /\ x3 \in Connection /\ x3.st = y.st /\ x3.watching = y.watching /\ x3.closed = y.closed
      /\ x3.watcher = "ended" /\ x3.ctx = NoCall /\ x3.canceled = y.canceled
  BY <1>2 DEF Connection
<1>7. y.watcher \in {"idle", "watching"} => y.st # "none"
  BY <1>1 DEF LinkInv, NewConn, y
<1> HIDE DEF x1, x2, x3
<1>8. /\ CallerInv' /\ LinkInv(c)'
      /\ conn' \in [Conn -> Connection] /\ net' \in [Conn -> Socket]
      /\ \A d \in Conn : d # c => conn'[d] = conn[d]
  <2>1. ASSUME NEW x \in Connection, conn' = [conn EXCEPT ![c] = x], x.st = y.st,
               x.watching = y.watching, y.closed => x.closed
        PROVE  CallerInv'
    <3>1. conn'[c] = x /\ \A d \in Conn : d # c => conn'[d] = conn[d]
      BY <1>1, <2>1, ConnUpdate
    <3>2. me.c \in Conn \cup {NoConn}
      BY <1>1 DEF Caller
    <3> QED
      BY <1>1, <2>1, <3>1, <3>2, CallerUnmoved DEF y
  <2>2. CASE /\ conn' = [conn EXCEPT ![c] = x1] /\ UNCHANGED net
             /\ y.watcher = "idle" /\ k # NoCall
    <3>1. conn' \in [Conn -> Connection] /\ conn'[c] = x1
          /\ \A d \in Conn : d # c => conn'[d] = conn[d]
      BY <1>1, <1>4, <2>2, ConnUpdate
    <3>2. LinkInv(c)'
      BY <1>1, <1>4, <1>7, <2>2, <3>1 DEF LinkInv, y, k, Busy, x1
    <3> QED
      BY <1>1, <1>4, <2>1, <2>2, <3>1, <3>2 DEF TypeOK
  <2>3. CASE conn' = [conn EXCEPT ![c] = x2] /\ net' = [net EXCEPT ![c] = n]
             /\ y.watcher = "watching"
    <3>1. conn' \in [Conn -> Connection] /\ conn'[c] = x2
          /\ \A d \in Conn : d # c => conn'[d] = conn[d]
      BY <1>1, <1>5, <2>3, ConnUpdate
    <3>2. LinkInv(c)'
      BY <1>1, <1>5, <1>7, <2>3, <3>1 DEF LinkInv, y
    <3>3. net' \in [Conn -> Socket]
      BY <1>1, <1>2, <2>3, NetUpdate
    <3> QED
      BY <1>1, <1>5, <2>1, <2>3, <3>1, <3>2, <3>3
  <2>4. CASE /\ conn' = [conn EXCEPT ![c] = x3] /\ UNCHANGED net
             /\ y.watcher \in {"idle", "watching"} /\ y.closed
    <3>1. conn' \in [Conn -> Connection] /\ conn'[c] = x3
          /\ \A d \in Conn : d # c => conn'[d] = conn[d]
      BY <1>1, <1>6, <2>4, ConnUpdate
    <3>2. LinkInv(c)'
      BY <1>1, <1>6, <1>7, <2>4, <3>1 DEF LinkInv, y
    <3> QED
      BY <1>1, <1>6, <2>1, <2>4, <3>1, <3>2 DEF TypeOK
  <2> QED
    BY <1>3, <2>2, <2>3, <2>4
<1>9. \A d \in Conn : LinkInv(d)'
  BY <1>1, <1>8, OneLink
<1> QED
  BY <1>1, <1>8, <1>9 DEF OwnInv, TypeOK, srvVars

\* Nothing but the socket of a connection, or the records of the server, changes.
LEMMA NetKept ==
    ASSUME OwnInv, UNCHANGED <<conn, me, tls, idle>>, net' \in [Conn -> Socket],
           done' \subseteq Call, ran' \in [Call -> Nat], served' \in Nat
    PROVE  OwnInv'
<1>1. CallerInv'
  BY DEF OwnInv, CallerInv, St, IsErr
<1>2. \A c \in Conn : LinkInv(c)'
  BY DEF OwnInv, LinkInv, Busy
<1> QED
  BY <1>1, <1>2 DEF OwnInv, TypeOK

LEMMA ServerGoneKept ==
    ASSUME OwnInv, NEW c \in Conn, ServerGone(c), UNCHANGED <<tls, idle, srvVars>>
    PROVE  OwnInv'
<1> DEFINE n == net[c]
<1>1. TypeOK /\ n \in Socket
  BY DEF OwnInv, TypeOK
<1>2. PICK out \in {n.out, <<>>} :
         net' = [net EXCEPT ![c] = [@ EXCEPT !.up = "gone", !.in = <<>>, !.out = out]]
  BY DEF ServerGone
<1> DEFINE i == <<>>
           x == [n EXCEPT !.up = "gone", !.in = i, !.out = out]
<1>3. out \in Seq(ServerFrame) /\ i \in Seq(ClientFrame)
  <2>1. <<>> \in Seq(ServerFrame) /\ i \in Seq(ClientFrame)
    OBVIOUS
  <2>2. n.out \in Seq(ServerFrame)
    BY <1>1 DEF Socket
  <2>3. out = n.out \/ out = <<>>
    BY <1>2
  <2> QED
    BY <2>1, <2>2, <2>3
<1>4. net' = [net EXCEPT ![c] = x]
  BY <1>2
<1> HIDE DEF n, i
<1>5. x \in Socket
  BY <1>1, <1>3 DEF Socket
<1> HIDE DEF x
<1>6. net' \in [Conn -> Socket]
  BY <1>1, <1>4, <1>5, NetUpdate
<1> QED
  BY <1>1, <1>6, NetKept DEF ServerGone, TypeOK, srvVars

LEMMA DeadlineKept == OwnInv /\ Deadline => OwnInv'
<1> SUFFICES ASSUME OwnInv, Deadline PROVE OwnInv'
  OBVIOUS
<1>1. TypeOK /\ me.n \in CallOrNone /\ me.n # NoCall
  BY DEF OwnInv, TypeOK, Caller, Deadline, ContextDone
<1>2. done' \subseteq Call
  BY <1>1, CallFacts DEF Deadline, ContextDone, TypeOK
<1> QED
  BY <1>1, <1>2, NetKept DEF Deadline, ContextDone, TypeOK, srvVars

\* What a server may answer to a packet of the handshake.
AuthAnswer(r) ==
    \/ r = <<>>
    \/ \E q \in Plugin : r = <<"SWITCH", q>>
    \/ r = <<"FAST", "OK">>
    \/ r \in {<<"OK">>, <<"ERR">>, <<"KEY">>, <<"FULL">>}

LEMMA AuthReplyShape ==
    ASSUME NEW cmd \in AuthCmds, NEW p, NEW secure, NEW r \in AuthReplies(cmd, p, secure)
    PROVE  AuthAnswer(r)
<1>1. CASE cmd = "sslRequest"
  BY <1>1 DEF AuthReplies, AuthAnswer
<1>2. CASE cmd \in {"password", "encrypted"}
  BY <1>2 DEF AuthReplies, AuthAnswer
<1>3. CASE cmd = "keyRequest"
  BY <1>3 DEF AuthReplies, AuthAnswer
<1>4. CASE cmd \in {"auth", "authSwitch"}
  <2>1. r \in {<<"OK">>, <<"ERR">>}
              \cup {<<"SWITCH", q>> : q \in Plugin}
              \cup (IF p = Sha2 THEN {<<"FAST", "OK">>, <<"FULL">>} ELSE {})
              \cup (IF p = Sha256 /\ ~secure THEN {<<"KEY">>} ELSE {})
    BY <1>4 DEF AuthReplies
  <2> QED
    BY <2>1 DEF AuthAnswer
<1> QED
  BY <1>1, <1>2, <1>3, <1>4 DEF AuthCmds

LEMMA PktType ==
    ASSUME NEW kind \in PacketKind, NEW arg \in Arg, NEW s \in 0 .. SeqMod - 1,
           NEW own \in CallOrNone
    PROVE  Pkt(kind, arg, s, own) \in ServerFrame /\ Pkt(kind, arg, s, own).kind = kind
BY DEF Pkt, ServerFrame, Size

\* The frames of an answer; one that says OK is an answer that accepts.
LEMMA AuthFramesType ==
    ASSUME NEW r, AuthAnswer(r), NEW n \in 0 .. SeqMod - 1, NEW own \in CallOrNone
    PROVE  /\ AuthFrames(r, n, own) \in Seq(ServerFrame)
           /\ \A k \in DOMAIN AuthFrames(r, n, own) :
                 AuthFrames(r, n, own)[k].kind = "OK" => r # <<>> /\ r[Len(r)] = "OK"
<1>1. CASE r = <<>>
  <2>1. AuthFrames(r, n, own) = <<>>
    BY <1>1 DEF AuthFrames
  <2> QED
    BY <2>1
<1>2. ASSUME NEW q \in Plugin, r = <<"SWITCH", q>>
      PROVE  /\ AuthFrames(r, n, own) \in Seq(ServerFrame)
             /\ \A k \in DOMAIN AuthFrames(r, n, own) :
                   AuthFrames(r, n, own)[k].kind # "OK"
  <2>1. AuthFrames(r, n, own) = <<Pkt("SWITCH", q, n, own)>>
    BY <1>2 DEF AuthFrames
  <2>2. Pkt("SWITCH", q, n, own) \in ServerFrame /\ Pkt("SWITCH", q, n, own).kind = "SWITCH"
    BY PktType DEF PacketKind, Arg
  <2> QED
    BY <2>1, <2>2
<1>3. CASE r = <<"FAST", "OK">>
  <2> DEFINE a == Pkt("FAST", "none", n, own)
             b == Pkt("OK", "none", Next8(n), own)
  <2>1. AuthFrames(r, n, own) = <<a, b>>
    BY <1>3 DEF AuthFrames
  <2>2. a \in ServerFrame /\ b \in ServerFrame
    BY PktType, Next8Range DEF PacketKind, Arg
  <2>3. r # <<>> /\ r[Len(r)] = "OK"
    BY <1>3
  <2> HIDE DEF a, b
  <2> QED
    BY <2>1, <2>2, <2>3
<1>4. ASSUME NEW x \in {"OK", "ERR", "KEY", "FULL"}, r = <<x>>
      PROVE  /\ AuthFrames(r, n, own) \in Seq(ServerFrame)
             /\ \A k \in DOMAIN AuthFrames(r, n, own) :
                   AuthFrames(r, n, own)[k].kind = "OK" => r # <<>> /\ r[Len(r)] = "OK"
  <2>1. AuthFrames(r, n, own) = <<Pkt(x, "none", n, own)>>
    <3>1. r # <<>> /\ r[1] = x /\ r # <<"FAST", "OK">>
      BY <1>4
    <3> QED
      BY <3>1, Zenon DEF AuthFrames
  <2>2. Pkt(x, "none", n, own) \in ServerFrame /\ Pkt(x, "none", n, own).kind = x
    BY PktType DEF PacketKind, Arg
  <2>3. r # <<>> /\ r[Len(r)] = x
    BY <1>4
  <2> QED
    BY <2>1, <2>2, <2>3
<1> QED
  BY <1>1, <1>2, <1>3, <1>4 DEF AuthAnswer

LEMMA ServerAuthenticatesKept ==
    ASSUME OwnInv, NEW c \in Conn, ServerAuthenticates(c), UNCHANGED <<idle, srvVars>>
    PROVE  OwnInv'
<1> DEFINE n == net[c]
           f == Head(n.in)
           t == Tail(n.in)
<1>1. TypeOK /\ n \in Socket /\ n.in # <<>> /\ f.cmd \in AuthCmds
  BY DEF OwnInv, TypeOK, ServerAuthenticates
<1>2. PICK r \in AuthReplies(f.cmd, f.arg, conn[c].tls) :
         net' = [net EXCEPT ![c].in = Tail(@),
                            ![c].out = IF conn[c].closed THEN <<>>
                                       ELSE AuthFrames(r, Next8(f.seq), f.own),
                            ![c].accepted = @ \/ (r # <<>> /\ r[Len(r)] = "OK")]
  BY Zenon DEF ServerAuthenticates
<1> DEFINE o == IF conn[c].closed THEN <<>> ELSE AuthFrames(r, Next8(f.seq), f.own)
           a == n.accepted \/ (r # <<>> /\ r[Len(r)] = "OK")
           x == [n EXCEPT !.in = t, !.out = o, !.accepted = a]
<1>3. net' = [net EXCEPT ![c] = x]
  BY <1>1, <1>2 DEF TypeOK
<1>4. n.in \in Seq(ClientFrame)
  BY <1>1 DEF Socket
<1>5. f \in ClientFrame /\ t \in Seq(ClientFrame)
  BY <1>1, <1>4
<1>6. o \in Seq(ServerFrame)
  <2>1. Next8(f.seq) \in 0 .. SeqMod - 1 /\ f.own \in CallOrNone
    BY <1>5, Next8Range DEF ClientFrame
  <2>2. AuthAnswer(r)
    BY <1>1, <1>2, AuthReplyShape
  <2>3. <<>> \in Seq(ServerFrame)
    OBVIOUS
  <2> HIDE DEF f
  <2> QED
    BY <2>1, <2>2, <2>3, AuthFramesType
<1>7. a \in BOOLEAN
  BY <1>1 DEF Socket
<1> HIDE DEF n, t, o, a
<1>8. x \in Socket
  BY <1>1, <1>5, <1>6, <1>7 DEF Socket
<1> HIDE DEF x
<1>9. net' \in [Conn -> Socket]
  BY <1>1, <1>3, <1>8, NetUpdate
<1> QED
  BY <1>1, <1>9, NetKept DEF ServerAuthenticates, TypeOK, srvVars

\* What a server may answer to a command.
LEMMA AnswersType ==
    ASSUME NEW cmd \in Sent \ AuthCmds, NEW d \in BOOLEAN, NEW r \in Answers(cmd, d)
    PROVE  r \in Seq(ReplyFrame)
<1> DEFINE F(k) == [kind |-> k, size |-> "part"]
           cols == [i \in 1 .. Columns |-> F("COL")]
           eof == IF d THEN <<>> ELSE <<F("EOF")>>
           ok == <<F("OK")>>
           err == <<F("ERR")>>
           head == <<F("OK"), F("COL")>>
           none == <<>>
<1>1. \/ r \in {ok, err, none}
      \/ r = head \o eof \o cols \o eof
      \/ r \in Replies[d]
  <2>1. CASE cmd = "ping"
    BY <2>1 DEF Answers
  <2>2. CASE cmd \in {"isolation", "begin", "endTx"}
    BY <2>2 DEF Answers
  <2>3. CASE cmd = "prepare"
    BY <2>3 DEF Answers
  <2>4. CASE cmd \in {"longData", "stmtClose"}
    BY <2>4 DEF Answers
  <2>5. CASE cmd \in {"query", "execute"}
    BY <2>5 DEF Answers
  <2> QED
    BY <2>1, <2>2, <2>3, <2>4, <2>5 DEF Sent, Main
<1>2. /\ F("OK") \in ReplyFrame /\ F("ERR") \in ReplyFrame /\ F("COL") \in ReplyFrame
      /\ F("EOF") \in ReplyFrame
  BY DEF ReplyFrame, PacketKind, Size
<1>3. /\ ok \in Seq(ReplyFrame) /\ err \in Seq(ReplyFrame) /\ head \in Seq(ReplyFrame)
      /\ none \in Seq(ReplyFrame) /\ eof \in Seq(ReplyFrame)
  <2> HIDE DEF F
  <2> QED
    BY <1>2
<1>4. cols \in Seq(ReplyFrame)
  <2> HIDE DEF F
  <2> QED
    BY <1>2
<1> HIDE DEF ok, err, head, none, eof, cols
<1>5. head \o eof \o cols \o eof \in Seq(ReplyFrame)
  BY <1>3, <1>4
<1> QED
  BY <1>1, <1>3, <1>5

LEMMA FirstRowsCount ==
    ASSUME NEW S, NEW r \in Seq(S)
    PROVE  Cardinality(FirstRows(r)) \in Nat
<1>1. FirstRows(r) \subseteq 1 .. Len(r) /\ Len(r) \in Nat
  BY DEF FirstRows
<1>2. IsFiniteSet(1 .. Len(r))
  BY <1>1, FS_Interval
<1> QED
  BY <1>1, <1>2, FS_Subset, FS_CardinalityType

LEMMA ServerRunsKept == ASSUME OwnInv, NEW c \in Conn, ServerRuns(c) PROVE OwnInv'
<1> DEFINE n == net[c]
           d == conn[c].deprecateEOF
<1>1. TypeOK /\ n \in Socket /\ d \in BOOLEAN /\ UNCHANGED <<conn, me, done, tls, idle>>
  BY DEF OwnInv, TypeOK, Connection, ServerRuns
<1>2. PICK i \in DOMAIN n.in :
         LET f == n.in[i]
         IN  /\ f.last /\ \A j \in 1 .. i - 1 : ~n.in[j].last
             /\ f.cmd \notin AuthCmds
             /\ \E r \in Answers(f.cmd, d) :
                  LET frames == [k \in DOMAIN r |->
                                   [kind |-> r[k].kind, size |-> r[k].size, arg |-> "none",
                                    seq |-> (f.seq + k) % SeqMod, own |-> f.own]]
                  IN  /\ net' = [net EXCEPT ![c].in = SubSeq(@, i + 1, Len(@)),
                                   ![c].out = IF conn[c].closed THEN <<>> ELSE frames]
                      /\ ran' = IF f.cmd \in Main THEN [ran EXCEPT ![f.own] = @ + 1] ELSE ran
                      /\ served' = IF f.cmd \in Main /\ f.own = me.n
                                   THEN Cardinality(FirstRows(r)) ELSE served
  BY DEF ServerRuns
<1> DEFINE f == n.in[i]
<1>3. PICK r \in Answers(f.cmd, d) :
         LET frames == [k \in DOMAIN r |->
                          [kind |-> r[k].kind, size |-> r[k].size, arg |-> "none",
                           seq |-> (f.seq + k) % SeqMod, own |-> f.own]]
         IN  /\ net' = [net EXCEPT ![c].in = SubSeq(@, i + 1, Len(@)),
                          ![c].out = IF conn[c].closed THEN <<>> ELSE frames]
             /\ ran' = IF f.cmd \in Main THEN [ran EXCEPT ![f.own] = @ + 1] ELSE ran
             /\ served' = IF f.cmd \in Main /\ f.own = me.n
                          THEN Cardinality(FirstRows(r)) ELSE served
  BY <1>2
<1>4. n.in \in Seq(ClientFrame) /\ i \in 1 .. Len(n.in) /\ Len(n.in) \in Nat
  BY <1>1, <1>2 DEF Socket
<1>5. f \in ClientFrame
  BY <1>4
<1>6. f.cmd \in Sent \ AuthCmds /\ f.seq \in Nat /\ f.own \in CallOrNone
  BY <1>2, <1>5 DEF ClientFrame
<1>7. r \in Seq(ReplyFrame)
  <2> HIDE DEF f, d
  <2> QED
    BY <1>1, <1>3, <1>6, AnswersType
<1> DEFINE g == [k \in DOMAIN r |-> [kind |-> r[k].kind, size |-> r[k].size, arg |-> "none",
                                     seq |-> (f.seq + k) % SeqMod, own |-> f.own]]
           o == IF conn[c].closed THEN <<>> ELSE g
           s == SubSeq(n.in, i + 1, Len(n.in))
           x == [n EXCEPT !.in = s, !.out = o]
<1>8. net' = [net EXCEPT ![c] = x]
  BY <1>1, <1>3 DEF TypeOK
<1>9. g \in Seq(ServerFrame)
  <2>1. ASSUME NEW k \in DOMAIN r PROVE g[k] \in ServerFrame
    <3>1. r[k] \in ReplyFrame /\ k \in Nat
      BY <1>7, <2>1
    <3>2. (f.seq + k) % SeqMod \in 0 .. SeqMod - 1
      BY <1>6, <3>1, SeqRange
    <3> HIDE DEF f
    <3> QED
      BY <1>6, <2>1, <3>1, <3>2 DEF ReplyFrame, ServerFrame, Arg
  <2>2. DOMAIN g = 1 .. Len(r) /\ Len(r) \in Nat
    BY <1>7
  <2> HIDE DEF g
  <2>3. DOMAIN r = 1 .. Len(r)
    BY <1>7
  <2>4. g \in [1 .. Len(r) -> ServerFrame]
    <3>1. g = [k \in 1 .. Len(r) |-> g[k]]
      BY <2>3 DEF g
    <3> QED
      BY <2>1, <2>3, <3>1
  <2> QED
    BY <2>2, <2>4
<1>10. o \in Seq(ServerFrame) /\ s \in Seq(ClientFrame)
  <2>1. <<>> \in Seq(ServerFrame)
    OBVIOUS
  <2> HIDE DEF g
  <2> QED
    BY <1>4, <1>9, <2>1
<1>11. ran' \in [Call -> Nat]
  <2>1. ran \in [Call -> Nat]
    BY <1>1 DEF TypeOK
  <2>2. CASE f.own \in Call
    BY <1>3, <2>1, <2>2, SMTT(30)
  <2>3. CASE f.own \notin Call
    BY <1>3, <2>1, <2>3
  <2> QED
    BY <2>2, <2>3
<1>12. served' \in Nat
  BY <1>1, <1>3, <1>7, FirstRowsCount DEF TypeOK
<1> HIDE DEF n, s, o
<1>13. x \in Socket
  BY <1>1, <1>10 DEF Socket
<1> HIDE DEF x
<1>14. net' \in [Conn -> Socket]
  BY <1>1, <1>8, <1>13, NetUpdate
<1> QED
  BY <1>1, <1>11, <1>12, <1>14, NetKept DEF TypeOK

-----------------------------------------------------------------------------
(* The pool.                                                                *)

LEMMA DropEffect ==
    ASSUME TypeOK, NEW c \in Conn, Drop(c)
    PROVE  /\ conn' \in [Conn -> Connection] /\ net' \in [Conn -> Socket]
           /\ conn'[c].st = "dropped" /\ conn'[c].closed = TRUE /\ conn'[c].canceled = NoCall
           /\ \A d \in Conn : d # c => conn'[d] = conn[d]
<1> DEFINE pending == \E i \in DOMAIN net[c].in : net[c].in[i].last /\ net[c].in[i].cmd \in Main
           x == [NewConn EXCEPT !.st = "dropped", !.closed = TRUE, !.watcher = "ended"]
           u == IF pending THEN "up" ELSE "gone"
           i == IF pending THEN net[c].in ELSE <<>>
           m == [NewNet EXCEPT !.up = u, !.in = i]
<1>1. conn' = [conn EXCEPT ![c] = x] /\ net' = [net EXCEPT ![c] = m]
  BY Zenon DEF Drop
<1>2. x \in Connection /\ x.st = "dropped" /\ x.closed = TRUE /\ x.canceled = NoCall
  <2>1. "ended" \in {"off", "idle", "watching", "ended"}
        /\ "dropped" \in {"none", "dialled", "ready", "dropped"}
    OBVIOUS
  <2>2. x.st = "dropped" /\ x.closed = TRUE /\ x.canceled = NoCall
    BY DEF NewConn
  <2> QED
    BY <2>1, <2>2, NewTypes DEF Connection
<1>3. u \in {"up", "gone"} /\ i \in Seq(ClientFrame)
  <2>1. net[c] \in Socket /\ <<>> \in Seq(ClientFrame)
    BY DEF TypeOK
  <2>2. net[c].in \in Seq(ClientFrame)
    BY <2>1 DEF Socket
  <2> HIDE DEF pending
  <2> QED
    BY <2>1, <2>2
<1> HIDE DEF x, u, i
<1>4. m \in Socket
  BY <1>3, NewTypes DEF Socket
<1> HIDE DEF m
<1> QED
  BY <1>1, <1>2, <1>4, ConnUpdate, NetUpdate

\* Nobody but the caller has a connection that is watched, so the others may be
\* left to the pool.
LEMMA Apart ==
    ASSUME OwnInv, NEW c \in Conn, c # me.c
    PROVE  conn[c].closed \/ ~conn[c].watching
BY DEF OwnInv, LinkInv

\* The caller's connection is dropped and the call goes on, or back, without.
LEMMA DropLinks ==
    ASSUME OwnInv, me.c \in Conn, Drop(me.c), me'.c = NoConn, idle' = idle
    PROVE  \A d \in Conn : LinkInv(d)'
<1> SUFFICES ASSUME NEW d \in Conn PROVE LinkInv(d)'
  OBVIOUS
<1>1. LinkInv(d) /\ TypeOK
  BY DEF OwnInv
<1>2. CASE d = me.c
  BY <1>1, <1>2, DropEffect, CallFacts DEF LinkInv
<1>3. CASE d # me.c
  <2>1. conn'[d] = conn[d] /\ (conn[d].closed \/ ~conn[d].watching) /\ d # NoConn
    BY <1>1, <1>3, DropEffect, Apart, CallFacts, ZenonT(30)
  <2> QED
    BY <1>1, <1>3, <2>1 DEF LinkInv, Busy
<1> QED
  BY <1>2, <1>3

\* A caller with no connection.
LEMMA Unbound ==
    ASSUME me'.c = NoConn, me'.pc \in {"idle", "conn", "connectFailed"}, me'.pc # "idle" => me'.n # NoCall
    PROVE  CallerInv'
BY DEF CallerInv, St, HandshakePCs, SessionPCs, ReplyPCs, BetweenPCs

\* Without a connection, before and after, nothing is linked to the caller.
LEMMA UnboundLinks ==
    ASSUME OwnInv, UNCHANGED <<conn, idle>>, me'.c = NoConn,
           me.c \in Conn => St = "none"
    PROVE  \A d \in Conn : LinkInv(d)'
<1> SUFFICES ASSUME NEW d \in Conn PROVE LinkInv(d)'
  OBVIOUS
<1>1. LinkInv(d) /\ d # NoConn
  BY CallFacts DEF OwnInv
<1>2. CASE d = me.c
  <2>1. conn[d] = NewConn
    BY <1>1, <1>2 DEF LinkInv, St
  <2> QED
    BY <1>1, <1>2, <2>1 DEF LinkInv, NewConn, Busy
<1>3. CASE d # me.c
  <2>1. conn[d].closed \/ ~conn[d].watching
    BY <1>3, Apart
  <2> QED
    BY <1>1, <1>3, <2>1 DEF LinkInv, Busy
<1> QED
  BY <1>2, <1>3

LEMMA StartCallKept == OwnInv /\ StartCall => OwnInv'
<1> SUFFICES ASSUME OwnInv, StartCall PROVE OwnInv'
  OBVIOUS
<1>1. TypeOK /\ me.pc = "idle" /\ me.n < MaxCalls /\ UNCHANGED <<conn, net, tls, idle, ran>>
      /\ served' = 0
  BY DEF OwnInv, StartCall
<1> DEFINE n == me.n + 1
<1>2. me.n \in 0 .. MaxCalls /\ me.c = NoConn
  BY <1>1 DEF OwnInv, TypeOK, Caller, CallOrNone, CallerInv
<1>3. n \in Call /\ n \in CallOrNone /\ n # NoCall
  BY <1>1, <1>2 DEF Call, CallOrNone, NoCall
<1>4. PICK kind \in Kinds[n] :
         \/ me' = [NoCaller EXCEPT !.n = n] /\ done' = done \cup {n}
         \/ /\ me' = [NoCaller EXCEPT !.n = n, !.pc = "conn",
                         !.kind = IF kind = "ownQuery" THEN "query" ELSE kind,
                         !.cred = IF kind = "ownQuery" THEN n ELSE NoCall]
            /\ UNCHANGED done
  BY DEF StartCall
<1> DEFINE k == IF kind = "ownQuery" THEN "query" ELSE kind
           r == IF kind = "ownQuery" THEN n ELSE NoCall
<1>5. k \in {"none", "exec", "query", "ping", "tx"} \cup Stmt /\ r \in CallOrNone
  <2>1. kind \in {"exec", "query", "ownQuery", "ping", "stmtExec", "stmtQuery", "tx"}
    BY <1>3, <1>4
  <2> HIDE DEF n
  <2> QED
    BY <1>3, <2>1, CallFacts DEF Stmt
<1>6. \/ me' = [NoCaller EXCEPT !.n = n]
      \/ me' = [NoCaller EXCEPT !.n = n, !.pc = "conn", !.kind = k, !.cred = r]
  BY <1>4
<1> HIDE DEF n, k, r
<1>7. /\ me' \in Caller /\ me'.c = NoConn /\ me'.n = n
      /\ me'.pc \in {"idle", "conn"}
  <2>1. CASE me' = [NoCaller EXCEPT !.n = n]
    <3>1. me' \in Caller
      BY <1>3, <2>1, NewTypes DEF Caller
    <3> QED
      BY <2>1, <3>1 DEF NoCaller
  <2>2. CASE me' = [NoCaller EXCEPT !.n = n, !.pc = "conn", !.kind = k, !.cred = r]
    <3>1. me' \in Caller
      BY <1>3, <1>5, <2>2, NewTypes, PCFacts DEF Caller
    <3> QED
      BY <2>2, <3>1 DEF NoCaller
  <2> QED
    BY <1>6, <2>1, <2>2
<1>8. done' \subseteq Call
  BY <1>1, <1>3, <1>4 DEF TypeOK
<1>9. CallerInv'
  BY <1>3, <1>7, Unbound
<1>10. \A c \in Conn : LinkInv(c)'
  BY <1>1, <1>2, <1>7, UnboundLinks, CallFacts
<1> QED
  BY <1>1, <1>7, <1>8, <1>9, <1>10 DEF OwnInv, TypeOK

LEMMA TakeConnKept == OwnInv /\ TakeConn => OwnInv'
<1> SUFFICES ASSUME OwnInv, TakeConn PROVE OwnInv'
  OBVIOUS
<1>1. TypeOK /\ me \in Caller /\ me.pc = "conn" /\ UNCHANGED <<conn, net, tls, srvVars>>
  BY DEF OwnInv, TypeOK, TakeConn
<1>2. me.c = NoConn /\ me.n # NoCall
  BY <1>1 DEF OwnInv, CallerInv
<1>3. CASE Return /\ UNCHANGED idle
  <2>1. me' \in Caller /\ me'.n = me.n /\ me'.pc = "idle" /\ me'.c = NoConn /\ done' \subseteq Call
    BY <1>1, <1>2, <1>3, ReturnEffect
  <2>2. CallerInv' /\ \A c \in Conn : LinkInv(c)'
    BY <1>1, <1>2, <1>3, <2>1, Unbound, UnboundLinks, CallFacts
  <2> QED
    BY <1>1, <1>3, <2>1, <2>2 DEF OwnInv, TypeOK, srvVars
<1>4. ASSUME NEW c \in idle, idle' = idle \ {c}, me' = [me EXCEPT !.pc = "reset", !.c = c],
             UNCHANGED done
      PROVE  OwnInv'
  <2>1. c \in Conn /\ LinkInv(c) /\ c # NoConn
    BY <1>1, CallFacts DEF OwnInv, TypeOK
  <2>2. me' \in Caller /\ me'.n = me.n /\ me'.pc = "reset" /\ me'.c = c
    <3>1. "reset" \in PCs
      BY PCFacts DEF BetweenPCs
    <3> QED
      BY <1>1, <1>4, <2>1, <3>1 DEF Caller
  <2>3. conn[c].st = "ready" /\ (conn[c].closed \/ ~conn[c].watching)
    BY <1>2, <2>1, Apart DEF LinkInv
  <2>4. CallerInv'
    BY <1>1, <1>2, <2>1, <2>2, <2>3
       DEF CallerInv, St, HandshakePCs, SessionPCs, ReplyPCs, BetweenPCs
  <2>5. ASSUME NEW d \in Conn PROVE LinkInv(d)'
    <3>1. LinkInv(d) /\ (conn[d].closed \/ ~conn[d].watching) /\ d # me.c
      BY <1>2, Apart, CallFacts DEF OwnInv
    <3> QED
      BY <1>1, <1>4, <2>2, <3>1 DEF LinkInv, Busy
  <2> QED
    BY <1>1, <1>4, <2>2, <2>4, <2>5 DEF OwnInv, TypeOK, srvVars
<1>5. ASSUME NEW c \in Fresh, me' = [me EXCEPT !.pc = "dial", !.c = c], UNCHANGED <<idle, done>>
      PROVE  OwnInv'
  <2>1. c \in Conn /\ LinkInv(c) /\ c # NoConn /\ conn[c].st = "none"
    BY <1>1, CallFacts DEF OwnInv, Fresh
  <2>2. me' \in Caller /\ me'.n = me.n /\ me'.pc = "dial" /\ me'.c = c
    BY <1>1, <1>5, <2>1, PCFacts DEF Caller
  <2>3. CallerInv'
    BY <1>1, <1>2, <2>1, <2>2
       DEF CallerInv, St, HandshakePCs, SessionPCs, ReplyPCs, BetweenPCs
  <2>4. ASSUME NEW d \in Conn PROVE LinkInv(d)'
    <3>1. LinkInv(d) /\ (conn[d].closed \/ ~conn[d].watching) /\ d # me.c
      BY <1>2, Apart, CallFacts DEF OwnInv
    <3> QED
      BY <1>1, <1>5, <2>1, <2>2, <3>1 DEF LinkInv, Busy
  <2> QED
    BY <1>1, <1>5, <2>2, <2>3, <2>4 DEF OwnInv, TypeOK, srvVars
<1> QED
  BY <1>3, <1>4, <1>5, Zenon DEF TakeConn

LEMMA ConnectFailedKept == OwnInv /\ ConnectFailed => OwnInv'
<1> SUFFICES ASSUME OwnInv, ConnectFailed PROVE OwnInv'
  OBVIOUS
<1>1. TypeOK /\ me \in Caller /\ me.pc = "connectFailed" /\ UNCHANGED <<tls, idle, srvVars>>
  BY DEF OwnInv, TypeOK, ConnectFailed
<1>2. me.n # NoCall /\ (me.c # NoConn => me.c \in Conn /\ conn[me.c].closed)
  BY <1>1 DEF OwnInv, CallerInv, Caller
<1>3. me' \in Caller /\ me'.n = me.n /\ me'.pc = "idle" /\ me'.c = NoConn /\ done' \subseteq Call
  BY <1>1, <1>2, ReturnEffect DEF ConnectFailed
<1>4. CallerInv'
  BY <1>3, Unbound
<1>5. CASE me.c # NoConn
  <2>1. me.c \in Conn /\ Drop(me.c)
    BY <1>2, <1>5 DEF ConnectFailed
  <2>2. conn' \in [Conn -> Connection] /\ net' \in [Conn -> Socket]
    BY <1>1, <2>1, DropEffect
  <2>3. \A c \in Conn : LinkInv(c)'
    BY <1>1, <1>3, <2>1, DropLinks
  <2> QED
    BY <1>1, <1>3, <1>4, <2>2, <2>3 DEF OwnInv, TypeOK, srvVars
<1>6. CASE me.c = NoConn
  <2>1. UNCHANGED <<conn, net>>
    BY <1>6 DEF ConnectFailed
  <2>2. \A c \in Conn : LinkInv(c)'
    BY <1>1, <1>3, <1>6, <2>1, UnboundLinks, CallFacts
  <2> QED
    BY <1>1, <1>3, <1>4, <2>1, <2>2 DEF OwnInv, TypeOK, srvVars
<1> QED
  BY <1>5, <1>6

\* The connection is dropped, and the call repeated or given up.
LEMMA DropKept ==
    ASSUME OwnInv, me.c \in Conn, me.n # NoCall, Drop(me.c), NEW e, GiveUpConn(e),
           UNCHANGED <<tls, idle, srvVars>>
    PROVE  OwnInv'
<1>1. TypeOK
  BY DEF OwnInv
<1>2. /\ me' \in Caller /\ me'.n = me.n /\ me'.pc \in {"idle", "conn"} /\ me'.c = NoConn
      /\ done' \subseteq Call
  BY <1>1, GiveUpConnEffect
<1>3. conn' \in [Conn -> Connection] /\ net' \in [Conn -> Socket]
  BY <1>1, DropEffect
<1>4. CallerInv' /\ \A c \in Conn : LinkInv(c)'
  BY <1>2, Unbound, DropLinks
<1> QED
  BY <1>1, <1>2, <1>3, <1>4 DEF OwnInv, TypeOK, srvVars

LEMMA ResetSessionKept == OwnInv /\ ResetSession => OwnInv'
<1> SUFFICES ASSUME OwnInv, ResetSession PROVE OwnInv'
  OBVIOUS
<1>1. me.pc = "reset" /\ UNCHANGED <<tls, idle, srvVars>>
  BY DEF ResetSession
<1>2. TypeOK /\ me \in Caller /\ me.c \in Conn /\ me.n # NoCall /\ St = "ready" /\ Free
  BY <1>1, BetweenFacts DEF BetweenPCs
<1>3. CASE Drop(me.c) /\ GiveUpConn("ErrBadConn")
  BY <1>1, <1>2, <1>3, DropKept
<1>4. CASE me' = [me EXCEPT !.pc = "watch"] /\ UNCHANGED <<conn, net, done>>
  <2>1. "watch" \in PCs
    BY PCFacts DEF BetweenPCs
  <2>2. me' \in Caller /\ Mine /\ me'.pc = "watch"
    BY <1>2, <1>4, <2>1 DEF Caller, Mine
  <2>3. Onward
    BY <1>2, <2>2 DEF Onward, BetweenPCs
  <2> QED
    BY <1>1, <1>2, <1>4, <2>3, UntouchedTouches, OnwardKept DEF TypeOK
<1> QED
  BY <1>3, <1>4 DEF ResetSession

LEMMA ReleaseKept == OwnInv /\ Release => OwnInv'
<1> SUFFICES ASSUME OwnInv, Release PROVE OwnInv'
  OBVIOUS
<1>1. me.pc = "release" /\ UNCHANGED <<tls, srvVars>> /\ GiveUpConn(me.err)
  BY DEF Release
<1>2. TypeOK /\ me \in Caller /\ me.c \in Conn /\ me.n # NoCall /\ St = "ready" /\ Free
  BY <1>1, BetweenFacts DEF BetweenPCs
<1>3. CASE Drop(me.c) /\ UNCHANGED idle
  BY <1>1, <1>2, <1>3, DropKept
<1>4. CASE Valid(me.c) /\ idle' = idle \cup {me.c} /\ UNCHANGED <<conn, net>>
  <2>1. /\ me' \in Caller /\ me'.n = me.n /\ me'.pc \in {"idle", "conn"} /\ me'.c = NoConn
        /\ done' \subseteq Call
    BY <1>1, <1>2, GiveUpConnEffect
  <2>2. CallerInv'
    BY <1>2, <2>1, Unbound
  <2>3. ASSUME NEW d \in Conn PROVE LinkInv(d)'
    <3>1. LinkInv(d) /\ d # NoConn /\ (conn[d].closed \/ ~conn[d].watching)
      BY <1>2, Apart, CallFacts DEF OwnInv, Free
    <3>2. d = me.c => conn[d].st = "ready" /\ ~Busy(d)
      BY <1>2, <1>4 DEF St, Valid
    <3> QED
      BY <1>4, <2>1, <3>1, <3>2 DEF LinkInv, Busy
  <2> QED
    BY <1>1, <1>2, <1>4, <2>1, <2>2, <2>3 DEF OwnInv, TypeOK, srvVars
<1> QED
  BY <1>3, <1>4 DEF Release

LEMMA IdleCloseKept == ASSUME OwnInv, NEW c \in Conn, IdleClose(c) PROVE OwnInv'
<1>1. TypeOK /\ c \in idle /\ Drop(c) /\ idle' = idle \ {c} /\ UNCHANGED <<me, done, tls, srvVars>>
  BY DEF OwnInv, IdleClose
<1>2. LinkInv(c) /\ c # me.c
  BY <1>1 DEF OwnInv, LinkInv
<1>3. /\ conn' \in [Conn -> Connection] /\ net' \in [Conn -> Socket]
      /\ conn'[c].st = "dropped" /\ conn'[c].closed = TRUE /\ conn'[c].canceled = NoCall
      /\ \A d \in Conn : d # c => conn'[d] = conn[d]
  BY <1>1, DropEffect
<1>4. me.c \in Conn => conn'[me.c] = conn[me.c]
  BY <1>2, <1>3
<1>5. CallerInv'
  <2>1. CASE me.c \in Conn
    BY <1>1, <1>4, <2>1 DEF OwnInv, CallerInv, St, IsErr
  <2>2. CASE me.c \notin Conn
    <3>1. me.c = NoConn /\ me.pc \in {"idle", "conn", "connectFailed"}
      BY <2>2 DEF OwnInv, CallerInv, TypeOK, Caller
    <3> QED
      BY <1>1, <3>1, Unbound DEF OwnInv, CallerInv
  <2> QED
    BY <2>1, <2>2
<1>6. ASSUME NEW d \in Conn PROVE LinkInv(d)'
  <2>1. LinkInv(d)
    BY DEF OwnInv
  <2>2. CASE d = c
    BY <1>1, <1>2, <1>3, <2>2 DEF LinkInv
  <2>3. CASE d # c
    BY <1>1, <1>3, <2>1, <2>3 DEF LinkInv, Busy
  <2> QED
    BY <2>2, <2>3
<1> QED
  BY <1>1, <1>3, <1>5, <1>6 DEF OwnInv, TypeOK, srvVars

-----------------------------------------------------------------------------
(* Connect.                                                                 *)

\* Where the goroutine may go on from any point of the handshake.
HsOnward ==
    /\ me' \in Caller /\ Mine
    /\ \/ me'.pc \in HandshakePCs
       \/ /\ me'.pc = "write" /\ me'.cmd \in Sent /\ me'.left # 0
          /\ me'.then \in HandshakePCs
       \/ me'.pc = "finish" /\ me'.then = "connectFailed" /\ conn'[me.c].closed

LEMMA HandshakeKept ==
    ASSUME OwnInv, me.c \in Conn, me.n # NoCall, St = "dialled", Touched, HsOnward,
           net' \in [Conn -> Socket], UNCHANGED <<done, tls, idle, srvVars>>
    PROVE  OwnInv'
<1>1. conn'[me'.c].st = "dialled" /\ me'.n # NoCall /\ me'.c \in Conn
      /\ me'.c = me.c /\ me'.n = me.n
  BY DEF HsOnward, Mine, Touched, SameLink, St
<1>2. CallerInv'
  <2>1. CASE me'.pc \in HandshakePCs
    BY <1>1, <2>1 DEF CallerInv, St, HandshakePCs, SessionPCs, ReplyPCs, BetweenPCs
  <2>2. CASE me'.pc = "write" /\ me'.cmd \in Sent /\ me'.left # 0 /\ me'.then \in HandshakePCs
    BY <1>1, <2>2 DEF CallerInv, St, HandshakePCs, SessionPCs, ReplyPCs, BetweenPCs
  <2>3. CASE me'.pc = "finish" /\ me'.then = "connectFailed" /\ conn'[me.c].closed
    BY <1>1, <2>3 DEF CallerInv, St, HandshakePCs, SessionPCs, ReplyPCs, BetweenPCs
  <2> QED
    BY <2>1, <2>2, <2>3 DEF HsOnward
<1>3. \A c \in Conn : LinkInv(c)'
  BY <1>1, TouchedLinks
<1> QED
  BY <1>2, <1>3 DEF OwnInv, TypeOK, Touched, HsOnward, srvVars

LEMMA ConnectFailsEffect ==
    ASSUME TypeOK, me.c \in Conn, NEW e \in Errors, ConnectFails(e)
    PROVE  Touched /\ HsOnward /\ net' \in [Conn -> Socket]
<1>1. Touched /\ conn'[me.c].closed = TRUE /\ net' \in [Conn -> Socket]
  BY CleanupTouches DEF ConnectFails
<1>2. me' = [me EXCEPT !.pc = "finish", !.then = "connectFailed", !.err = e,
                        !.got = NoPkt, !.part = NoPkt, !.bad = FALSE]
  BY DEF ConnectFails
<1>3. me' \in Caller /\ Mine /\ me'.pc = "finish" /\ me'.then = "connectFailed"
  BY <1>2, PCFacts, PacketFacts DEF TypeOK, Caller, Mine
<1> QED
  BY <1>1, <1>3 DEF HsOnward

LEMMA ReplyEffect ==
    ASSUME TypeOK, NEW cmd \in AuthCmds, NEW arg \in Arg, NEW then \in HandshakePCs,
           Reply(cmd, arg, then)
    PROVE  HsOnward /\ me'.pc = "write" /\ me'.cmd = cmd /\ me'.then = then
<1> DEFINE l == 1
<1>1. me' = [me EXCEPT !.pc = "write", !.cmd = cmd, !.arg = arg, !.left = l,
                       !.then = then, !.got = NoPkt]
  BY DEF Reply
<1>2. l \in Nat /\ l # 0
  OBVIOUS
<1>3. cmd \in Cmd /\ cmd \in Sent /\ then \in PCs /\ "write" \in PCs
  BY PCFacts DEF Cmd, Sent
<1> HIDE DEF l
<1>4. me' \in Caller /\ Mine /\ me'.pc = "write" /\ me'.cmd = cmd /\ me'.left = l
      /\ me'.then = then
  BY <1>1, <1>2, <1>3, PacketFacts DEF TypeOK, Caller, Mine
<1> QED
  BY <1>2, <1>3, <1>4 DEF HsOnward

LEMMA DialKept == OwnInv /\ Dial /\ UNCHANGED <<idle, srvVars>> => OwnInv'
<1> SUFFICES ASSUME OwnInv, Dial, UNCHANGED <<idle, srvVars>> PROVE OwnInv'
  OBVIOUS
<1>1. TypeOK /\ me \in Caller /\ me.pc = "dial" /\ UNCHANGED <<done, tls>>
  BY DEF OwnInv, TypeOK, Dial
<1>2. me.c \in Conn /\ me.n # NoCall /\ St = "none" /\ LinkInv(me.c)
      /\ me.n \in CallOrNone /\ me.cred \in CallOrNone
  BY <1>1 DEF OwnInv, CallerInv, Caller
<1> DEFINE k == me.cred
           w == me.n
           x == [NewConn EXCEPT !.st = "dialled", !.watcher = "idle", !.user = k,
                                !.closed = TRUE]
           y == [NewConn EXCEPT !.st = "dialled", !.watcher = "idle", !.user = k,
                                !.watching = TRUE, !.chan = w]
<1>3. PICK cap \in Announced, p \in Plugin \cup {"ERR"} :
         LET hello == IF p = "ERR" THEN Pkt("ERR", "none", 0, me.n)
                      ELSE Pkt("HELLO", p, 0, me.n)
             dialled == [NewConn EXCEPT !.st = "dialled", !.watcher = "idle",
                                        !.user = me.cred]
         IN  IF me.n \in done
                THEN /\ conn' = [conn EXCEPT ![me.c] = [dialled EXCEPT !.closed = TRUE]]
                     /\ net' = [net EXCEPT ![me.c] = NewNet]
                     /\ me' = [me EXCEPT !.pc = "connectFailed", !.err = "canceled"]
                ELSE /\ conn' = [conn EXCEPT ![me.c] =
                                   [dialled EXCEPT !.watching = TRUE, !.chan = me.n]]
                     /\ net' = [net EXCEPT ![me.c] =
                                   [NewNet EXCEPT !.out = <<hello>>,
                                                  !.ssl = cap.ssl, !.eof = cap.eof]]
                     /\ me' = [me EXCEPT !.pc = "hello"]
  BY Zenon DEF Dial
<1> DEFINE hello == IF p = "ERR" THEN Pkt("ERR", "none", 0, me.n) ELSE Pkt("HELLO", p, 0, me.n)
           out == <<hello>>
           s == cap.ssl
           e == cap.eof
           m == [NewNet EXCEPT !.out = out, !.ssl = s, !.eof = e]
<1>4. hello \in ServerFrame /\ s \in BOOLEAN /\ e \in BOOLEAN
  <2>1. 0 \in 0 .. SeqMod - 1
    OBVIOUS
  <2>2. "ERR" \in PacketKind /\ "HELLO" \in PacketKind /\ "none" \in Arg /\ Plugin \subseteq Arg
    BY DEF PacketKind, Arg
  <2>3. s \in BOOLEAN /\ e \in BOOLEAN
    OBVIOUS
  <2> QED
    BY <1>2, <2>1, <2>2, <2>3, PktType
<1>5. out \in Seq(ServerFrame)
  <2> HIDE DEF hello
  <2> QED
    BY <1>4
<1>6. \/ /\ me.n \in done
         /\ conn' = [conn EXCEPT ![me.c] = x] /\ net' = [net EXCEPT ![me.c] = NewNet]
         /\ me' = [me EXCEPT !.pc = "connectFailed", !.err = "canceled"]
      \/ /\ me.n \notin done
         /\ conn' = [conn EXCEPT ![me.c] = y] /\ net' = [net EXCEPT ![me.c] = m]
         /\ me' = [me EXCEPT !.pc = "hello"]
  <2>1. CASE me.n \in done
    <3>1. /\ conn' = [conn EXCEPT ![me.c] = x] /\ net' = [net EXCEPT ![me.c] = NewNet]
          /\ me' = [me EXCEPT !.pc = "connectFailed", !.err = "canceled"]
      BY <1>3, <2>1 DEF NewConn
    <3> QED
      BY <2>1, <3>1
  <2>2. CASE me.n \notin done
    <3>1. /\ conn' = [conn EXCEPT ![me.c] = y] /\ net' = [net EXCEPT ![me.c] = m]
          /\ me' = [me EXCEPT !.pc = "hello"]
      BY <1>3, <2>2 DEF NewConn
    <3> QED
      BY <2>2, <3>1
  <2> QED
    BY <2>1, <2>2
<1> HIDE DEF k, w, hello, out, s, e
<1>7. k \in CallOrNone /\ w \in CallOrNone
  BY <1>2 DEF k, w
<1>8. x \in Connection /\ x.st = "dialled" /\ x.closed /\ x.canceled = NoCall
  <2>1. x \in Connection
    BY <1>7, NewTypes DEF Connection
  <2>2. x.st = "dialled" /\ x.closed /\ x.canceled = NoCall
    BY DEF NewConn
  <2> QED
    BY <2>1, <2>2
<1>9. /\ y \in Connection /\ y.st = "dialled" /\ y.watching /\ y.chan = w /\ y.ctx = NoCall
      /\ y.canceled = NoCall /\ y.watcher = "idle" /\ ~y.closed
  <2>1. y \in Connection
    BY <1>7, NewTypes DEF Connection
  <2>2. /\ y.st = "dialled" /\ y.watching /\ y.chan = w /\ y.ctx = NoCall
        /\ y.canceled = NoCall /\ y.watcher = "idle" /\ ~y.closed
    BY DEF NewConn
  <2> QED
    BY <2>1, <2>2
<1>10. m \in Socket
  BY <1>4, <1>5, NewTypes DEF Socket
<1> HIDE DEF x, y, m
<1>11. CASE /\ conn' = [conn EXCEPT ![me.c] = x] /\ net' = [net EXCEPT ![me.c] = NewNet]
            /\ me' = [me EXCEPT !.pc = "connectFailed", !.err = "canceled"]
  <2>1. /\ conn' \in [Conn -> Connection] /\ conn'[me.c] = x
        /\ \A d \in Conn : d # me.c => conn'[d] = conn[d]
    BY <1>1, <1>2, <1>8, <1>11, ConnUpdate
  <2>2. net' \in [Conn -> Socket]
    BY <1>1, <1>2, <1>11, NewTypes, NetUpdate
  <2>3. me' \in Caller /\ Mine /\ me'.pc = "connectFailed"
    BY <1>1, <1>11, PCFacts DEF Caller, Mine, Errors
  <2>4. CallerInv'
    BY <1>2, <1>8, <2>1, <2>3
       DEF CallerInv, St, Mine, HandshakePCs, SessionPCs, ReplyPCs, BetweenPCs
  <2>5. LinkInv(me.c)'
    BY <1>1, <1>2, <1>8, <2>1, <2>3 DEF LinkInv, Mine, St
  <2>6. \A d \in Conn : LinkInv(d)'
    BY <1>1, <1>2, <2>1, <2>3, <2>5, OneLink DEF Mine
  <2> QED
    BY <1>1, <2>1, <2>2, <2>3, <2>4, <2>6 DEF OwnInv, TypeOK, srvVars
<1>12. CASE /\ conn' = [conn EXCEPT ![me.c] = y] /\ net' = [net EXCEPT ![me.c] = m]
            /\ me' = [me EXCEPT !.pc = "hello"]
  <2>1. /\ conn' \in [Conn -> Connection] /\ conn'[me.c] = y
        /\ \A d \in Conn : d # me.c => conn'[d] = conn[d]
    BY <1>1, <1>2, <1>9, <1>12, ConnUpdate
  <2>2. net' \in [Conn -> Socket]
    BY <1>1, <1>2, <1>10, <1>12, NetUpdate
  <2>3. me' \in Caller /\ Mine /\ me'.pc = "hello"
    <3>1. "hello" \in PCs
      BY PCFacts DEF HandshakePCs
    <3> QED
      BY <1>1, <1>12, <3>1 DEF Caller, Mine
  <2>4. CallerInv'
    BY <1>2, <1>9, <2>1, <2>3
       DEF CallerInv, St, Mine, HandshakePCs, SessionPCs, ReplyPCs, BetweenPCs
  <2>5. LinkInv(me.c)'
    BY <1>1, <1>2, <1>9, <2>1, <2>3 DEF LinkInv, Mine, St, w
  <2>6. \A d \in Conn : LinkInv(d)'
    BY <1>1, <1>2, <2>1, <2>3, <2>5, OneLink DEF Mine
  <2> QED
    BY <1>1, <2>1, <2>2, <2>3, <2>4, <2>6 DEF OwnInv, TypeOK, srvVars
<1> QED
  BY <1>6, <1>11, <1>12

LEMMA DialFailsKept == OwnInv /\ DialFails /\ UNCHANGED <<idle, srvVars>> => OwnInv'
<1> SUFFICES ASSUME OwnInv, DialFails, UNCHANGED <<idle, srvVars>> PROVE OwnInv'
  OBVIOUS
<1>1. TypeOK /\ me \in Caller /\ me.pc = "dial" /\ UNCHANGED <<conn, net, done, tls>>
      /\ me' = [me EXCEPT !.pc = "connectFailed", !.c = NoConn, !.err = "ErrSetup"]
  BY DEF OwnInv, TypeOK, DialFails
<1>2. me.c \in Conn /\ me.n # NoCall /\ St = "none"
  BY <1>1 DEF OwnInv, CallerInv
<1>3. me' \in Caller /\ me'.n = me.n /\ me'.pc = "connectFailed" /\ me'.c = NoConn
  BY <1>1, PCFacts DEF Caller, Errors
<1>4. CallerInv' /\ \A c \in Conn : LinkInv(c)'
  BY <1>1, <1>2, <1>3, Unbound, UnboundLinks
<1> QED
  BY <1>1, <1>3, <1>4 DEF OwnInv, TypeOK, srvVars

LEMMA HandshakeFacts ==
    ASSUME OwnInv, me.pc \in HandshakePCs
    PROVE  /\ TypeOK /\ me \in Caller /\ me.c \in Conn /\ me.n # NoCall /\ St = "dialled"
           /\ me.got.arg \in Arg /\ (IsErr(me.got) => me.got.kind \in Errors)
           /\ {"MySQLError", "ErrSetup", "ErrMalformPkt"} \subseteq Errors
<1>1. me.pc \notin {"idle", "conn", "connectFailed"}
  BY DEF HandshakePCs
<1>2. {"MySQLError", "ErrSetup", "ErrMalformPkt"} \subseteq Errors
  BY DEF Errors
<1> QED
  BY <1>1, <1>2 DEF OwnInv, CallerInv, TypeOK, Caller, Packet, IsErr

\* The connection was touched no more than by a flag of the handshake.
LEMMA ReadHandshakePacketKept ==
    OwnInv /\ ReadHandshakePacket /\ UNCHANGED <<idle, srvVars>> => OwnInv'
<1> SUFFICES ASSUME OwnInv, ReadHandshakePacket, UNCHANGED <<idle, srvVars>> PROVE OwnInv'
  OBVIOUS
<1>1. me.pc = "hello" /\ UNCHANGED <<done, tls>>
  BY DEF ReadHandshakePacket
<1>2. /\ TypeOK /\ me \in Caller /\ me.c \in Conn /\ me.n # NoCall /\ St = "dialled"
      /\ me.got.arg \in Arg /\ (IsErr(me.got) => me.got.kind \in Errors)
      /\ {"MySQLError", "ErrSetup", "ErrMalformPkt"} \subseteq Errors
  BY <1>1, HandshakeFacts DEF HandshakePCs
<1> DEFINE plugin == IF me.got.arg \in Usable THEN me.got.arg ELSE Native
           server == net[me.c]
           y == conn[me.c]
           d == server.eof
           x == [y EXCEPT !.deprecateEOF = d]
           m == [server EXCEPT !.ssl = FALSE, !.eof = FALSE]
<1>3. ASSUME NEW e \in Errors, ConnectFails(e)
      PROVE  OwnInv'
  BY <1>1, <1>2, <1>3, ConnectFailsEffect, HandshakeKept
<1>4. ASSUME conn' = [conn EXCEPT ![me.c] = InitCapabilities(@, server)],
             \/ Reply("sslRequest", plugin, "tls")
             \/ Reply("auth", plugin, "authResult"),
             net' = [net EXCEPT ![me.c].ssl = FALSE, ![me.c].eof = FALSE]
      PROVE  OwnInv'
  <2>1. conn' = [conn EXCEPT ![me.c] = x]
    BY <1>4 DEF InitCapabilities
  <2>2. net' = [net EXCEPT ![me.c] = m]
    BY <1>2, <1>4 DEF TypeOK
  <2>3. server \in Socket /\ y \in Connection
    BY <1>2 DEF TypeOK
  <2>4. d \in BOOLEAN
    BY <2>3 DEF Socket
  <2>5. plugin \in Arg
    BY <1>2 DEF Arg, Usable
  <2> HIDE DEF plugin, server, y, d
  <2>6. x \in Connection /\ SameLink(x, y) /\ m \in Socket
    BY <2>3, <2>4 DEF Connection, SameLink, Socket
  <2> HIDE DEF x, m
  <2>7. Touched /\ net' \in [Conn -> Socket]
    BY <1>2, <2>1, <2>2, <2>6, ConnUpdate, NetUpdate DEF Touched, y
  <2>8. HsOnward
    <3>1. {"sslRequest", "auth"} \subseteq AuthCmds /\ {"tls", "authResult"} \subseteq HandshakePCs
      BY DEF AuthCmds, HandshakePCs
    <3> QED
      BY <1>2, <1>4, <2>5, <3>1, ReplyEffect
  <2> QED
    BY <1>1, <1>2, <2>7, <2>8, HandshakeKept
<1>5. \/ IsErr(me.got) /\ ConnectFails(me.got.kind)
      \/ ConnectFails("MySQLError")
      \/ ConnectFails("ErrSetup")
      \/ /\ conn' = [conn EXCEPT ![me.c] = InitCapabilities(@, server)]
         /\ \/ Reply("sslRequest", plugin, "tls")
            \/ Reply("auth", plugin, "authResult")
         /\ net' = [net EXCEPT ![me.c].ssl = FALSE, ![me.c].eof = FALSE]
  BY DEF ReadHandshakePacket
<1> QED
  BY <1>2, <1>3, <1>4, <1>5

LEMMA SwitchToTLSKept == OwnInv /\ SwitchToTLS /\ UNCHANGED <<idle, srvVars>> => OwnInv'
<1> SUFFICES ASSUME OwnInv, SwitchToTLS, UNCHANGED <<idle, srvVars>> PROVE OwnInv'
  OBVIOUS
<1>1. me.pc = "tls" /\ UNCHANGED <<done, tls>>
  BY DEF SwitchToTLS
<1>2. /\ TypeOK /\ me \in Caller /\ me.c \in Conn /\ me.n # NoCall /\ St = "dialled"
      /\ {"MySQLError", "ErrSetup", "ErrMalformPkt"} \subseteq Errors
  BY <1>1, HandshakeFacts DEF HandshakePCs
<1>3. ASSUME NEW e \in Errors, ConnectFails(e)
      PROVE  OwnInv'
  BY <1>1, <1>2, <1>3, ConnectFailsEffect, HandshakeKept
<1>4. CanceledOr(me.c, "ErrSetup") \in Errors
  BY <1>2, ErrorFacts
<1>5. ASSUME conn' = [conn EXCEPT ![me.c].tls = TRUE], Reply("auth", me.arg, "authResult"),
             UNCHANGED net
      PROVE  OwnInv'
  <2> DEFINE y == conn[me.c]
             x == [y EXCEPT !.tls = TRUE]
  <2>1. conn' = [conn EXCEPT ![me.c] = x] /\ y \in Connection
    BY <1>2, <1>5 DEF TypeOK
  <2> HIDE DEF y
  <2>2. x \in Connection /\ SameLink(x, y)
    BY <2>1 DEF Connection, SameLink
  <2> HIDE DEF x
  <2>3. Touched
    BY <1>2, <2>1, <2>2, ConnUpdate DEF Touched, y
  <2>4. HsOnward
    <3>1. me.arg \in Arg
      BY <1>2 DEF Caller
    <3>2. "auth" \in AuthCmds /\ "authResult" \in HandshakePCs
      BY DEF AuthCmds, HandshakePCs
    <3> QED
      BY <1>2, <1>5, <3>1, <3>2, ReplyEffect
  <2> QED
    BY <1>1, <1>2, <1>5, <2>3, <2>4, HandshakeKept DEF TypeOK
<1>6. \/ conn' = [conn EXCEPT ![me.c].tls = TRUE] /\ Reply("auth", me.arg, "authResult")
         /\ UNCHANGED net
      \/ ConnectFails("ErrSetup")
      \/ ConnectFails(CanceledOr(me.c, "ErrSetup"))
  BY DEF SwitchToTLS
<1> QED
  BY <1>2, <1>3, <1>4, <1>5, <1>6

LEMMA ConnectedKept ==
    ASSUME OwnInv, me.c \in Conn, me.n # NoCall, St = "dialled", Connected,
           UNCHANGED <<done, tls, idle, srvVars>>
    PROVE  OwnInv'
<1> DEFINE y == conn[me.c]
           x == [y EXCEPT !.st = "ready"]
<1>1. TypeOK /\ me \in Caller /\ y \in Connection /\ conn' = [conn EXCEPT ![me.c] = x]
      /\ UNCHANGED net /\ LinkInv(me.c)
  BY DEF OwnInv, TypeOK, Connected
<1>2. me' = [me EXCEPT !.pc = "finish", !.then = "watch", !.got = NoPkt,
                       !.cmd = "none", !.arg = "none"]
  BY DEF Connected
<1> HIDE DEF y
<1>3. /\ x \in Connection /\ x.st = "ready" /\ x.closed = y.closed /\ x.watching = y.watching
      /\ x.watcher = y.watcher /\ x.chan = y.chan /\ x.ctx = y.ctx /\ x.canceled = y.canceled
  BY <1>1 DEF Connection
<1> HIDE DEF x
<1>4. /\ conn' \in [Conn -> Connection] /\ conn'[me.c] = x
      /\ \A d \in Conn : d # me.c => conn'[d] = conn[d]
  BY <1>1, <1>3, ConnUpdate
<1>5. me' \in Caller /\ Mine /\ me'.pc = "finish" /\ me'.then = "watch"
  <2>1. "finish" \in PCs /\ "watch" \in PCs /\ "none" \in Cmd /\ "none" \in Arg
    BY PCFacts DEF BetweenPCs, Cmd, Arg
  <2> QED
    BY <1>1, <1>2, <2>1, PacketFacts DEF Caller, Mine
<1>6. CallerInv'
  BY <1>3, <1>4, <1>5
     DEF CallerInv, St, Mine, HandshakePCs, SessionPCs, ReplyPCs, BetweenPCs
<1>7. LinkInv(me.c)'
  BY <1>1, <1>3, <1>4, <1>5 DEF LinkInv, Mine, St, y
<1>8. \A d \in Conn : LinkInv(d)'
  BY <1>4, <1>5, <1>7, OneLink DEF Mine
<1> QED
  BY <1>1, <1>4, <1>5, <1>6, <1>8 DEF OwnInv, TypeOK, srvVars

LEMMA AuthenticateKept ==
    OwnInv /\ (HandleAuthResult \/ ReadPublicKey \/ ReadAuthOK) /\ UNCHANGED <<idle, srvVars>>
        => OwnInv'
<1> SUFFICES ASSUME OwnInv, HandleAuthResult \/ ReadPublicKey \/ ReadAuthOK,
                    UNCHANGED <<idle, srvVars>>
             PROVE  OwnInv'
  OBVIOUS
<1>1. me.pc \in HandshakePCs /\ UNCHANGED <<done, tls>>
  BY DEF HandleAuthResult, ReadPublicKey, ReadAuthOK, HandshakePCs
<1>2. /\ TypeOK /\ me \in Caller /\ me.c \in Conn /\ me.n # NoCall /\ St = "dialled"
      /\ me.got.arg \in Arg /\ (IsErr(me.got) => me.got.kind \in Errors)
      /\ {"MySQLError", "ErrSetup", "ErrMalformPkt"} \subseteq Errors
  BY <1>1, HandshakeFacts
<1>3. ASSUME NEW e \in Errors, ConnectFails(e)
      PROVE  OwnInv'
  BY <1>1, <1>2, <1>3, ConnectFailsEffect, HandshakeKept
<1>4. ASSUME NEW cmd \in AuthCmds, NEW arg \in Arg, NEW then \in HandshakePCs,
             Reply(cmd, arg, then), UNCHANGED <<conn, net>>
      PROVE  OwnInv'
  BY <1>1, <1>2, <1>4, ReplyEffect, UntouchedTouches, HandshakeKept DEF TypeOK
<1>5. ASSUME me' = [me EXCEPT !.pc = "authOK", !.got = NoPkt], UNCHANGED <<conn, net>>
      PROVE  OwnInv'
  <2>1. "authOK" \in PCs /\ "authOK" \in HandshakePCs
    BY PCFacts DEF HandshakePCs
  <2>2. me' \in Caller /\ Mine /\ me'.pc = "authOK"
    BY <1>2, <1>5, <2>1, PacketFacts DEF Caller, Mine
  <2>3. HsOnward
    BY <2>1, <2>2 DEF HsOnward
  <2> QED
    BY <1>1, <1>2, <1>5, <2>3, UntouchedTouches, HandshakeKept DEF TypeOK
<1>6. CASE Connected
  BY <1>1, <1>2, <1>6, ConnectedKept
<1>7. {"authSwitch", "password", "keyRequest", "encrypted"} \subseteq AuthCmds
      /\ {"authResult", "authOK", "authKey"} \subseteq HandshakePCs
      /\ Sha2 \in Arg /\ Sha256 \in Arg
  BY DEF AuthCmds, HandshakePCs, Arg, Usable
<1>8. \/ IsErr(me.got) /\ ConnectFails(me.got.kind)
      \/ ConnectFails("MySQLError")
      \/ ConnectFails("ErrMalformPkt")
      \/ Reply("authSwitch", me.got.arg, "authResult") /\ UNCHANGED <<conn, net>>
      \/ Connected
      \/ me' = [me EXCEPT !.pc = "authOK", !.got = NoPkt] /\ UNCHANGED <<conn, net>>
      \/ Reply("password", Sha2, "authOK") /\ UNCHANGED <<conn, net>>
      \/ Reply("keyRequest", Sha2, "authKey") /\ UNCHANGED <<conn, net>>
      \/ Reply("encrypted", Sha256, "authOK") /\ UNCHANGED <<conn, net>>
      \/ Reply("encrypted", Sha2, "authOK") /\ UNCHANGED <<conn, net>>
  BY DEF HandleAuthResult, ReadPublicKey, ReadAuthOK
<1> QED
  BY <1>2, <1>3, <1>4, <1>5, <1>6, <1>7, <1>8

LEMMA HandshakeWriteFailsKept ==
    OwnInv /\ HandshakeWriteFails /\ UNCHANGED <<idle, srvVars>> => OwnInv'
<1> SUFFICES ASSUME OwnInv, HandshakeWriteFails, UNCHANGED <<idle, srvVars>> PROVE OwnInv'
  OBVIOUS
<1>1. /\ TypeOK /\ me.c \in Conn /\ me.n # NoCall /\ St = "dialled" /\ me.got.kind \in Errors
      /\ ConnectFails(me.got.kind) /\ UNCHANGED <<done, tls>>
  BY DEF OwnInv, CallerInv, HandshakeWriteFails, St, IsErr
<1> QED
  BY <1>1, ConnectFailsEffect, HandshakeKept
-----------------------------------------------------------------------------
(* The theorems.                                                            *)

LEMMA InitOwn == Init => OwnInv
<1> SUFFICES ASSUME Init PROVE OwnInv
  OBVIOUS
<1>1. TypeOK
  BY NewTypes DEF Init, TypeOK
<1>2. me = NoCaller /\ me.pc = "idle" /\ me.c = NoConn
  BY DEF Init, NoCaller
<1>3. CallerInv
  BY <1>2 DEF CallerInv, HandshakePCs, SessionPCs, ReplyPCs, BetweenPCs
<1>4. ASSUME NEW c \in Conn PROVE LinkInv(c)
  BY CallFacts DEF Init, LinkInv, NewConn
<1> QED
  BY <1>1, <1>3, <1>4 DEF OwnInv

\* OwnInv is inductive.
LEMMA OwnStep == OwnInv /\ [Next]_vars => OwnInv'
<1> SUFFICES ASSUME OwnInv, [Next]_vars PROVE OwnInv'
  OBVIOUS
<1>1. CASE CallerStep
  <2>1. CASE WireStep /\ UNCHANGED <<tls, idle, srvVars>>
    BY <2>1, ReadFailsKept, ReadFrameKept, WriteFrameKept, FinishKept, WriteFailsKept
       DEF WireStep
  <2>2. CASE ConnectStep /\ UNCHANGED <<idle, srvVars>>
    BY <2>2, DialKept, ReadHandshakePacketKept, SwitchToTLSKept, AuthenticateKept,
       HandshakeWriteFailsKept DEF ConnectStep
  <2>3. CASE TakeConn \/ ConnectFailed \/ ResetSession \/ Release \/ Watch \/ UseStmt
    BY <2>3, TakeConnKept, ConnectFailedKept, ResetSessionKept, ReleaseKept, WatchKept,
       UseStmtKept
  <2>4. CASE SessionAction
    BY <2>4, SessionKept
  <2> QED
    BY <1>1, <2>1, <2>2, <2>3, <2>4 DEF CallerStep, SessionAction
<1>2. CASE Choice
  BY <1>2, StartCallKept, IdleCloseKept, SessionKept DEF Choice, SessionAction
<1>3. CASE Failure
  BY <1>3, DialFailsKept, ServerGoneKept DEF Failure
<1>4. CASE Fill /\ UNCHANGED <<tls, idle, srvVars>>
  BY <1>4, FillKept
<1>5. CASE \E c \in Conn : ServerStep(c)
  BY <1>5, ServerAuthenticatesKept, ServerRunsKept DEF ServerStep
<1>6. CASE \E c \in Conn : WatcherStep(c)
  BY <1>6, WatcherKept
<1>7. CASE Deadline
  BY <1>7, DeadlineKept
<1>8. CASE UNCHANGED vars
  <2>1. UNCHANGED <<conn, net, me, done, tls, idle, ran, served>>
    BY <1>8 DEF vars, hsVars, wireVars
  <2> QED
    BY <2>1, NetKept DEF OwnInv, TypeOK
<1> QED
  BY <1>1, <1>2, <1>3, <1>4, <1>5, <1>6, <1>7, <1>8 DEF Next

LEMMA Owned == Spec => []OwnInv
BY InitOwn, OwnStep, PTL DEF Spec

\* Everything has its type, at any time.
THEOREM TypeCorrect == Spec => []TypeOK
BY Owned, PTL DEF OwnInv

\* Connect, database/sql and the pool (connector.go, connection.go): a
\* connection that no call uses is closed, or in the pool and fit for any call.
THEOREM NoLeaks == Spec => []NothingLeaks
<1>1. OwnInv => NothingLeaks
  <2> SUFFICES ASSUME OwnInv, NEW c \in Conn, conn[c].st # "none", me.c # c, ~conn[c].closed
               PROVE  c \in idle /\ conn[c].st = "ready" /\ ~conn[c].watching /\ ~Busy(c)
    BY DEF NothingLeaks
  <2> QED
    BY DEF OwnInv, LinkInv
<1> QED
  BY <1>1, Owned, PTL

-----------------------------------------------------------------------------
(* Cancellation.                                                            *)

\* What NoStrayCancel says of a step.
NoStray ==
    \A c \in Conn : conn'[c].canceled # conn[c].canceled /\ ~conn[c].closed =>
        conn'[c].canceled = me.n /\ me.c = c

LEMMA TouchedNoStray == Touched /\ me.c \in Conn => NoStray
BY DEF Touched, SameLink, NoStray

\* Setting another field of a connection.
LEMMA KeptCanceled ==
    ASSUME TypeOK, NEW c \in Conn, NEW x, x.canceled = conn[c].canceled,
           conn' = [conn EXCEPT ![c] = x]
    PROVE  NoStray
BY DEF TypeOK, NoStray

LEMMA CleanupNoStray == ASSUME TypeOK, NEW c \in Conn, Cleanup(c) PROVE NoStray
<1> DEFINE y == conn[c]
           x == [y EXCEPT !.closed = TRUE]
<1>1. conn' = [conn EXCEPT ![c] = x] /\ y \in Connection
  BY DEF Cleanup, TypeOK
<1> HIDE DEF y
<1>2. x.canceled = y.canceled
  BY <1>1 DEF Connection
<1> HIDE DEF x
<1> QED
  BY <1>1, <1>2, KeptCanceled DEF y

LEMMA DropNoStray == ASSUME OwnInv, NEW c \in Conn, Drop(c) PROVE NoStray
<1>1. TypeOK /\ LinkInv(c)
  BY DEF OwnInv
<1>2. conn'[c].canceled = NoCall /\ \A d \in Conn : d # c => conn'[d] = conn[d]
  BY <1>1, DropEffect
<1> QED
  BY <1>1, <1>2 DEF LinkInv, NoStray

LEMMA WireNoStray == OwnInv /\ (WireStep \/ Fill) => NoStray
<1> SUFFICES ASSUME OwnInv, WireStep \/ Fill PROVE NoStray
  OBVIOUS
<1>1. TypeOK /\ me.c \in Conn
  <2>1. me.pc \in ReadPCs \cup {"write", "finish"}
    BY Zenon DEF WireStep, Fill, ReadFails, ReadFrame, Reading, WriteFrame, Finish, WriteFails
  <2> QED
    BY <2>1, ReadingFacts DEF OwnInv, CallerInv
<1> DEFINE y == conn[me.c]
           w == Next8(y.seq)
           q == Next8(Head(y.buf).seq)
           t == Tail(y.buf)
<1>2. y \in Connection
  BY <1>1 DEF TypeOK
<1>3. CASE Fill
  <2>1. PICK s : conn' = [conn EXCEPT ![me.c].buf = s]
    BY <1>3 DEF Fill
  <2> HIDE DEF y
  <2>2. [y EXCEPT !.buf = s].canceled = y.canceled
    BY <1>2 DEF Connection
  <2> QED
    BY <1>1, <2>1, <2>2, KeptCanceled DEF y
<1>4. CASE ReadFails \/ \E n \in {0, 1} : WriteFails(n)
  BY <1>1, <1>4, CleanupNoStray DEF ReadFails, WriteFails
<1>5. CASE ReadFrame
  <2>1. \/ conn' = [conn EXCEPT ![me.c] = [y EXCEPT !.buf = t, !.seq = q]]
        \/ conn' = [conn EXCEPT ![me.c] = [y EXCEPT !.buf = t, !.seq = q, !.closed = TRUE]]
    BY <1>5, Zenon DEF ReadFrame
  <2> HIDE DEF y, q, t
  <2>2. /\ [y EXCEPT !.buf = t, !.seq = q].canceled = y.canceled
        /\ [y EXCEPT !.buf = t, !.seq = q, !.closed = TRUE].canceled = y.canceled
    BY <1>2 DEF Connection
  <2> QED
    BY <1>1, <2>1, <2>2, KeptCanceled DEF y
<1>6. CASE WriteFrame
  <2>1. conn' = [conn EXCEPT ![me.c] = [y EXCEPT !.seq = w]]
    BY <1>6 DEF WriteFrame
  <2> HIDE DEF y, w
  <2>2. [y EXCEPT !.seq = w].canceled = y.canceled
    BY <1>2 DEF Connection
  <2> QED
    BY <1>1, <2>1, <2>2, KeptCanceled DEF y
<1>7. CASE Finish
  <2>1. \/ UNCHANGED conn
        \/ conn' = [conn EXCEPT ![me.c] =
                      [y EXCEPT !.watching = FALSE, !.watcher = "idle", !.ctx = NoCall]]
    BY <1>1, <1>7 DEF Finish, TypeOK
  <2> HIDE DEF y
  <2>2. [y EXCEPT !.watching = FALSE, !.watcher = "idle", !.ctx = NoCall].canceled = y.canceled
    BY <1>2 DEF Connection
  <2>3. CASE UNCHANGED conn
    BY <2>3 DEF NoStray
  <2> QED
    BY <1>1, <2>1, <2>2, <2>3, KeptCanceled DEF y
<1> QED
  BY <1>3, <1>4, <1>5, <1>6, <1>7 DEF WireStep

LEMMA HandContextNoStray ==
    ASSUME TypeOK, me.c \in Conn, NEW p, HandContext(p)
    PROVE  NoStray
<1> DEFINE y == conn[me.c]
           k == me.n
           x == [y EXCEPT !.watching = TRUE, !.chan = k]
<1>1. conn' = [conn EXCEPT ![me.c] = x] /\ y \in Connection
  BY DEF HandContext, TypeOK
<1> HIDE DEF y, k
<1>2. x.canceled = y.canceled
  BY <1>1 DEF Connection
<1> HIDE DEF x
<1> QED
  BY <1>1, <1>2, KeptCanceled DEF y

LEMMA ConnectNoStray == OwnInv /\ (ConnectStep \/ DialFails) => NoStray
<1> SUFFICES ASSUME OwnInv, ConnectStep \/ DialFails PROVE NoStray
  OBVIOUS
<1>1. TypeOK /\ me.c \in Conn
  <2>1. me.pc \in HandshakePCs \cup {"dial", "failed"}
    BY DEF ConnectStep, Dial, ReadHandshakePacket, SwitchToTLS, HandleAuthResult,
       ReadPublicKey, ReadAuthOK, HandshakeWriteFails, DialFails, HandshakePCs
  <2> QED
    BY <2>1 DEF OwnInv, CallerInv, HandshakePCs
<1> DEFINE y == conn[me.c]
           d == net[me.c].eof
<1>2. y \in Connection
  BY <1>1 DEF TypeOK
<1>3. CASE Dial
  <2>1. conn[me.c] = NewConn
    BY <1>1, <1>3 DEF Dial, OwnInv, CallerInv, LinkInv, St
  <2> DEFINE u == me.cred
             n == me.n
             a == [NewConn EXCEPT !.st = "dialled", !.watcher = "idle", !.user = u]
             b == [a EXCEPT !.closed = TRUE]
             w == [a EXCEPT !.watching = TRUE, !.chan = n]
  <2>2. \/ conn' = [conn EXCEPT ![me.c] = b]
        \/ conn' = [conn EXCEPT ![me.c] = w]
    BY <1>3 DEF Dial
  <2> HIDE DEF u, n
  <2>3. b.canceled = NoCall /\ w.canceled = NoCall /\ conn[me.c].canceled = NoCall
    BY <2>1 DEF NewConn
  <2> HIDE DEF a, b, w
  <2> QED
    BY <1>1, <2>2, <2>3, KeptCanceled
<1>4. CASE \E e : ConnectFails(e)
  BY <1>1, <1>4, CleanupNoStray DEF ConnectFails
<1>5. CASE UNCHANGED conn
  BY <1>5 DEF NoStray
<1>6. ASSUME NEW x \in {[y EXCEPT !.deprecateEOF = d], [y EXCEPT !.tls = TRUE],
                        [y EXCEPT !.st = "ready"]},
             conn' = [conn EXCEPT ![me.c] = x]
      PROVE  NoStray
  <2> HIDE DEF y, d
  <2>1. x.canceled = y.canceled
    BY <1>2 DEF Connection
  <2> QED
    BY <1>1, <1>6, <2>1, KeptCanceled DEF y
<1>7. CASE ReadHandshakePacket
  BY <1>4, <1>6, <1>7 DEF ReadHandshakePacket, InitCapabilities
<1>8. CASE SwitchToTLS
  BY <1>4, <1>6, <1>8 DEF SwitchToTLS
<1>9. CASE HandleAuthResult \/ ReadPublicKey \/ ReadAuthOK
  BY <1>4, <1>5, <1>6, <1>9 DEF HandleAuthResult, ReadPublicKey, ReadAuthOK, Connected
<1> QED
  BY <1>3, <1>4, <1>5, <1>7, <1>8, <1>9 DEF ConnectStep, HandshakeWriteFails, DialFails

\* The watcher cancels for the call it was given, which is the one that uses the
\* connection.
LEMMA WatcherNoStray == ASSUME OwnInv, NEW c \in Conn, WatcherStep(c) PROVE NoStray
<1>1. TypeOK /\ LinkInv(c) /\ conn[c] \in Connection
  BY DEF OwnInv, TypeOK
<1>2. CASE WatcherCancels(c)
  <2>1. conn[c].watcher = "watching"
        /\ conn'[c].canceled = conn[c].ctx /\ \A d \in Conn : d # c => conn'[d] = conn[d]
    BY <1>1, <1>2 DEF WatcherCancels, TypeOK, Connection
  <2> QED
    BY <1>1, <2>1 DEF LinkInv, NoStray
<1>3. CASE WatcherTakes(c) \/ WatcherEnds(c)
  <2> DEFINE y == conn[c]
             k == y.chan
             x1 == [y EXCEPT !.watcher = "watching", !.chan = NoCall, !.ctx = k]
             x2 == [y EXCEPT !.watcher = "ended", !.ctx = NoCall]
  <2>1. conn' = [conn EXCEPT ![c] = x1] \/ conn' = [conn EXCEPT ![c] = x2]
    BY <1>1, <1>3 DEF WatcherTakes, WatcherEnds, TypeOK
  <2> HIDE DEF y, k
  <2>2. x1.canceled = y.canceled /\ x2.canceled = y.canceled
    BY <1>1 DEF Connection, y
  <2> HIDE DEF x1, x2
  <2> QED
    BY <1>1, <2>1, <2>2, KeptCanceled DEF y
<1> QED
  BY <1>2, <1>3 DEF WatcherStep

LEMMA StrayStep == OwnInv /\ [Next]_vars => NoStray
<1> SUFFICES ASSUME OwnInv, [Next]_vars PROVE NoStray
  OBVIOUS
<1>1. TypeOK
  BY DEF OwnInv
<1>2. CASE UNCHANGED conn
  BY <1>2 DEF NoStray
<1>3. CASE SessionAction
  BY <1>3, SessionTouches, TouchedNoStray
<1>4. CASE Watch \/ UseStmt
  <2>1. me.c \in Conn
    BY <1>4, BetweenFacts DEF Watch, UseStmt, BetweenPCs
  <2> QED
    BY <1>1, <1>2, <1>4, <2>1, CleanupNoStray, HandContextNoStray
       DEF Watch, WatchCancel, UseStmt
<1>5. CASE ConnectFailed \/ ResetSession \/ Release
  <2>1. me.c \in Conn \cup {NoConn}
    BY <1>1 DEF TypeOK, Caller
  <2>2. me.c # NoConn \/ UNCHANGED conn
    <3>1. me.pc \in {"reset", "release"} => me.c # NoConn
      BY CallFacts, BetweenFacts DEF BetweenPCs
    <3> QED
      BY <1>5, <3>1 DEF ConnectFailed, ResetSession, Release
  <2>3. Drop(me.c) \/ UNCHANGED conn
    BY <1>5 DEF ConnectFailed, ResetSession, Release
  <2> QED
    BY <1>2, <2>1, <2>2, <2>3, DropNoStray
<1>6. CASE Choice
  BY <1>2, <1>3, <1>6, DropNoStray DEF Choice, StartCall, IdleClose, SessionAction
<1>7. CASE Failure \/ Deadline \/ \E c \in Conn : ServerStep(c)
  BY <1>2, <1>7, Zenon
     DEF Failure, DialFails, ServerGone, Deadline, ContextDone, ServerStep,
         ServerAuthenticates, ServerRuns
<1>8. CASE CallerStep
  BY <1>2, <1>3, <1>4, <1>5, <1>8, WireNoStray, ConnectNoStray
     DEF CallerStep, SessionAction, TakeConn
<1> QED
  BY <1>2, <1>6, <1>7, <1>8, WireNoStray, WatcherNoStray DEF Next, vars, hsVars, wireVars

\* watchCancel and finish (connection.go): a connection is only ever canceled for
\* the call that uses it, never for an earlier one.
THEOREM StrayFree == Spec => NoStrayCancel
<1>1. OwnInv /\ [Next]_vars => [NoStray]_vars
  BY StrayStep
<1> QED
  BY <1>1, Owned, PTL DEF Spec, NoStrayCancel, NoStray

-----------------------------------------------------------------------------
(* A statement is run at most once.                                         *)

HsCmds == AuthCmds \cup {"none"}

\* The complete command of call n is on its way to the server.
Carries(c, n) ==
    \E i \in DOMAIN net[c].in :
       net[c].in[i].last /\ net[c].in[i].cmd \in Main /\ net[c].in[i].own = n

\* The server has not run it, and no complete command is on its way.
Unsent(n) == ran[n] = 0 /\ \A c \in Conn : ~Carries(c, n)

Once(n) ==
    /\ ran[n] <= 1
    /\ ran[n] = 1 => \A c \in Conn : ~Carries(c, n)
    /\ \A c, d \in Conn : \A i \in DOMAIN net[c].in, j \in DOMAIN net[d].in :
          /\ net[c].in[i].last /\ net[c].in[i].cmd \in Main /\ net[c].in[i].own = n
          /\ net[d].in[j].last /\ net[d].in[j].cmd \in Main /\ net[d].in[j].own = n
          => c = d /\ i = j

\* The caller may still send its statement, now or in another try.
CanSend(m) ==
    \/ m.cmd \notin Main \cup {"endTx", "stmtClose"}
    \/ m.pc \in {"write", "failed"} /\ m.cmd \in Main
    \/ m.err = "ErrBadConn" /\ m.mode # "endTx"

At(m, pcs) == m.pc \in pcs

WritesTo(m, pcs) == m.pc = "write" /\ m.then \in pcs

FinishesTo(m, pcs) == m.pc = "finish" /\ m.then \in pcs

\* The end of a call that failed before its statement was sent.
Winding(m) ==
    \/ At(m, {"closeStmt", "release", "connectFailed"})
    \/ FinishesTo(m, {"closeStmt", "release", "connectFailed"})
    \/ At(m, {"write", "failed"}) /\ m.cmd = "stmtClose"

\* Which command the call has sent last, where it is now.
Course(m) ==
    /\ At(m, {"conn", "dial", "reset", "watch"} \cup HandshakePCs) => m.cmd \in HsCmds
    /\ FinishesTo(m, {"reset", "watch"}) \/ WritesTo(m, HandshakePCs) => m.cmd \in HsCmds
    /\ At(m, {"execute"}) \/ WritesTo(m, {"execute"}) => m.cmd \in {"stmt", "longData"}
    /\ At(m, {"stmt"}) \/ FinishesTo(m, {"stmt"}) => m.cmd = "stmt"
    /\ At(m, {"prepared"}) \/ WritesTo(m, {"prepared"}) => m.cmd = "prepare"
    /\ At(m, {"columns", "eof"}) /\ m.mode \in {"params", "prepare"} => m.cmd = "prepare"
    /\ At(m, {"header", "skip"}) \/ WritesTo(m, {"header"}) => m.mode \notin {"params", "prepare"}
    /\ At(m, {"write", "failed"}) /\ m.cmd = "endTx" => m.mode = "endTx"
    /\ At(m, {"write"}) /\ m.cmd = "stmtClose" => m.then = "release"
    /\ m.err = "ErrBadConn" => Winding(m)
    /\ m.got.kind # "ErrBadConn" /\ m.part.kind # "ErrBadConn"

SentInv ==
    /\ \A n \in Call : Once(n)
    /\ \A n \in Call : n > me.n => Unsent(n)
    /\ me.pc # "idle" /\ CanSend(me) => Unsent(me.n)

OnceInv == OwnInv /\ Course(me) /\ SentInv

\* A server only ever takes what came first, a socket that goes takes all of it.
Drained ==
    \A c \in Conn : \E k \in Nat : \A i \in DOMAIN net'[c].in :
       i + k \in DOMAIN net[c].in /\ net'[c].in[i] = net[c].in[i + k]

LEMMA DrainedCarries ==
    ASSUME Drained, NEW c \in Conn, NEW n, Carries(c, n)'
    PROVE  Carries(c, n)
<1>1. PICK k \in Nat : \A i \in DOMAIN net'[c].in :
                           i + k \in DOMAIN net[c].in /\ net'[c].in[i] = net[c].in[i + k]
  BY DEF Drained
<1> QED
  BY <1>1 DEF Carries

LEMMA DrainedUnsent ==
    ASSUME Drained, NEW n, ran'[n] = ran[n], Unsent(n)
    PROVE  Unsent(n)'
BY DrainedCarries DEF Unsent

LEMMA DrainedOnce ==
    ASSUME TypeOK', Drained, NEW n \in Call, Once(n), ran'[n] = ran[n]
    PROVE  Once(n)'
<1>1. ran'[n] <= 1 /\ (ran'[n] = 1 => \A c \in Conn : ~Carries(c, n)')
  BY DrainedCarries DEF Once
<1>2. ASSUME NEW c \in Conn, NEW d \in Conn, NEW i \in DOMAIN net'[c].in,
             NEW j \in DOMAIN net'[d].in,
             net'[c].in[i].last, net'[c].in[i].cmd \in Main, net'[c].in[i].own = n,
             net'[d].in[j].last, net'[d].in[j].cmd \in Main, net'[d].in[j].own = n
      PROVE  c = d /\ i = j
  <2>1. PICK k \in Nat : \A x \in DOMAIN net'[c].in :
                             x + k \in DOMAIN net[c].in /\ net'[c].in[x] = net[c].in[x + k]
    BY DEF Drained
  <2>2. PICK l \in Nat : \A x \in DOMAIN net'[d].in :
                             x + l \in DOMAIN net[d].in /\ net'[d].in[x] = net[d].in[x + l]
    BY DEF Drained
  <2>3. c = d /\ i + k = j + l
    BY <1>2, <2>1, <2>2 DEF Once
  <2>4. net'[c].in[j] = net[c].in[j + k] /\ j + k \in DOMAIN net[c].in
    BY <2>1, <2>3
  <2>5. j + k = i + k
    BY <1>2, <2>1, <2>3, <2>4 DEF Once
  <2>6. i \in Nat /\ j \in Nat
    <3>1. net'[c] \in Socket /\ net'[d] \in Socket
      BY DEF TypeOK
    <3>2. net'[c].in \in Seq(ClientFrame) /\ net'[d].in \in Seq(ClientFrame)
      BY <3>1 DEF Socket
    <3> QED
      BY <3>2
  <2> QED
    BY <2>3, <2>5, <2>6
<1> QED
  BY <1>1, <1>2 DEF Once

\* The call is in no better place to send than it was, and nothing was sent.
LEMMA DrainedSent ==
    ASSUME SentInv, TypeOK', Drained, ran' = ran, me'.n = me.n,
           me'.pc # "idle" /\ CanSend(me') => me.pc # "idle" /\ CanSend(me)
    PROVE  SentInv'
<1>1. \A n \in Call : Once(n)'
  BY DrainedOnce DEF SentInv
<1>2. ASSUME NEW n, Unsent(n)
      PROVE  Unsent(n)'
  BY <1>2, DrainedUnsent
<1>3. ASSUME NEW n \in Call, n > me'.n
      PROVE  Unsent(n)'
  BY <1>2, <1>3 DEF SentInv
<1>4. ASSUME me'.pc # "idle", CanSend(me')
      PROVE  Unsent(me.n)'
  BY <1>2, <1>4 DEF SentInv, Unsent, Carries
<1> QED
  BY <1>1, <1>3, <1>4 DEF SentInv

LEMMA NetSame == TypeOK /\ UNCHANGED net => Drained
<1> SUFFICES ASSUME TypeOK, UNCHANGED net, NEW c \in Conn
             PROVE  \E k \in Nat : \A i \in DOMAIN net'[c].in :
                       i + k \in DOMAIN net[c].in /\ net'[c].in[i] = net[c].in[i + k]
  BY DEF Drained
<1>1. \A i \in DOMAIN net[c].in : i \in Nat /\ i + 0 = i
  <2>1. net[c].in \in Seq(ClientFrame)
    BY DEF TypeOK, Socket
  <2> QED
    BY <2>1
<1> QED
  BY <1>1

\* One socket changes; what its server has received and not run is a rest of
\* what it was.
LEMMA SuffixDrained ==
    ASSUME TypeOK, NEW c \in Conn, NEW x, net' = [net EXCEPT ![c] = x], NEW k \in Nat,
           x.in = SubSeq(net[c].in, k + 1, Len(net[c].in))
    PROVE  Drained
<1>0. net[c].in \in Seq(ClientFrame)
  BY DEF TypeOK, Socket
<1> DEFINE s == net[c].in
<1>9. \A i \in DOMAIN x.in : i + k \in DOMAIN s /\ x.in[i] = s[i + k]
  <2>1. s \in Seq(ClientFrame) /\ x.in = SubSeq(s, k + 1, Len(s))
    BY <1>0
  <2> HIDE DEF s
  <2>2. Len(s) \in Nat /\ DOMAIN s = 1 .. Len(s)
    BY <2>1
  <2>3. CASE k + 1 > Len(s)
    <3>1. x.in = <<>>
      BY <2>1, <2>2, <2>3
    <3> QED
      BY <3>1
  <2>4. CASE k + 1 <= Len(s)
    <3>1. DOMAIN x.in = 1 .. Len(s) - k
      BY <2>1, <2>2, <2>4
    <3>2. \A i \in 1 .. Len(s) - k : x.in[i] = s[k + 1 + i - 1]
      BY <2>1, <2>2, <2>4
    <3>3. ASSUME NEW i \in 1 .. Len(s) - k
          PROVE  i + k \in 1 .. Len(s) /\ k + 1 + i - 1 = i + k
      BY <2>2, <2>4
    <3> QED
      BY <2>2, <3>1, <3>2, <3>3
  <2> QED
    BY <2>2, <2>3, <2>4
<1> SUFFICES ASSUME NEW d \in Conn
             PROVE  \E l \in Nat : \A i \in DOMAIN net'[d].in :
                       i + l \in DOMAIN net[d].in /\ net'[d].in[i] = net[d].in[i + l]
  BY DEF Drained
<1>1. CASE d = c
  <2>1. net'[d] = x
    BY <1>1 DEF TypeOK
  <2> QED
    BY <1>1, <1>9, <2>1
<1>2. CASE d # c
  <2>1. net'[d] = net[d] /\ net[d].in \in Seq(ClientFrame)
    BY <1>2 DEF TypeOK, Socket
  <2>2. \A i \in DOMAIN net[d].in : i + 0 = i
    BY <2>1
  <2> QED
    BY <2>1, <2>2
<1> QED
  BY <1>1, <1>2

\* The same, and none of it.
LEMMA SameInDrained ==
    ASSUME TypeOK, NEW c \in Conn, NEW x, net' = [net EXCEPT ![c] = x],
           x.in = net[c].in \/ x.in = <<>>
    PROVE  Drained
<1> SUFFICES ASSUME NEW d \in Conn
             PROVE  \E l \in Nat : \A i \in DOMAIN net'[d].in :
                       i + l \in DOMAIN net[d].in /\ net'[d].in[i] = net[d].in[i + l]
  BY DEF Drained
<1>1. net[d].in \in Seq(ClientFrame) /\ (net'[d].in = net[d].in \/ net'[d].in = <<>>)
  BY DEF TypeOK, Socket
<1>2. \A i \in DOMAIN net'[d].in : i + 0 \in DOMAIN net[d].in /\ net'[d].in[i] = net[d].in[i + 0]
  BY <1>1
<1> QED
  BY <1>2

LEMMA CleanupDrained == ASSUME TypeOK, NEW c \in Conn, Cleanup(c) PROVE Drained
<1> DEFINE n == net[c]
           s == <<>>
           x == [n EXCEPT !.out = s]
<1>1. net' = [net EXCEPT ![c] = x] /\ n \in Socket
  BY DEF Cleanup, CloseNet, TypeOK
<1> HIDE DEF n, s
<1>2. x.in = n.in
  BY <1>1 DEF Socket
<1> HIDE DEF x
<1> QED
  BY <1>1, <1>2, SameInDrained DEF n

LEMMA DropDrained == ASSUME TypeOK, NEW c \in Conn, Drop(c) PROVE Drained
<1> DEFINE pending == \E i \in DOMAIN net[c].in : net[c].in[i].last /\ net[c].in[i].cmd \in Main
           u == IF pending THEN "up" ELSE "gone"
           i == IF pending THEN net[c].in ELSE <<>>
           m == [NewNet EXCEPT !.up = u, !.in = i]
<1>1. net' = [net EXCEPT ![c] = m]
  BY Zenon DEF Drop
<1>2. i = net[c].in \/ i = <<>>
  OBVIOUS
<1> HIDE DEF pending, u, i
<1>3. m.in = i
  BY DEF NewNet
<1> HIDE DEF m
<1> QED
  BY <1>1, <1>2, <1>3, SameInDrained

\* The call stays on its course, and is in no better place to send than it was.
Follows == Course(me') /\ (CanSend(me') => CanSend(me))

LEMMA CmdFacts ==
    /\ \A cmd \in HsCmds : cmd \notin Main \cup {"prepare", "stmt", "longData", "stmtClose",
                                                 "isolation", "endTx"}
    /\ AuthCmds \subseteq HsCmds /\ "none" \in HsCmds
BY DEF HsCmds, AuthCmds, Main

LEMMA UnmovedFollows == Course(me) /\ UNCHANGED me => Follows
<1> SUFFICES ASSUME Course(me), me' = me PROVE Follows
  OBVIOUS
<1> QED
  BY DEF Follows, Course, CanSend, At, WritesTo, FinishesTo, Winding

LEMMA EndFollows ==
    ASSUME TypeOK, Course(me), NEW e, End(e),
           e = "ErrBadConn" => CanSend(me) \/ me.mode = "endTx"
    PROVE  Follows
<1> DEFINE e2 == IF me.err = "none" THEN e ELSE me.err
           t == IF me.kind \in Stmt /\ me.cmd \in {"stmt", "execute", "longData"}
                THEN "closeStmt" ELSE "release"
<1>1. me' = [me EXCEPT !.pc = "finish", !.got = NoPkt, !.part = NoPkt, !.bad = FALSE,
                       !.err = e2, !.then = t]
  BY DEF End
<1>2. t \in {"closeStmt", "release"}
  OBVIOUS
<1>3. e2 = "ErrBadConn" => me.err = "ErrBadConn" \/ CanSend(me) \/ me.mode = "endTx"
  OBVIOUS
<1> HIDE DEF e2, t
<1>4. /\ me'.pc = "finish" /\ me'.then = t /\ me'.err = e2 /\ me'.cmd = me.cmd
      /\ me'.mode = me.mode /\ me'.got = NoPkt /\ me'.part = NoPkt
  BY <1>1 DEF TypeOK, Caller
<1>5. Course(me')
  BY <1>2, <1>4 DEF Course, At, WritesTo, FinishesTo, Winding, HandshakePCs, NoPkt
<1>6. CanSend(me') => CanSend(me)
  BY <1>3, <1>4 DEF CanSend
<1> QED
  BY <1>5, <1>6 DEF Follows

\* Going on with the same command, outside the end of a failed call.
LEMMA OnFollows ==
    ASSUME Course(me), ~Winding(me), me'.cmd = me.cmd, me'.err # "ErrBadConn",
           me'.got = NoPkt, me'.part.kind # "ErrBadConn",
           \/ /\ me'.pc \in {"rows", "next", "ok", "send"}
           \/ me'.pc = "finish" /\ me'.then \in {"drain", "inTx"}
           \/ me'.pc \in {"header", "skip"} /\ me'.mode \notin {"params", "prepare"}
           \/ /\ me'.pc \in {"columns", "eof"}
              /\ me'.mode \in {"params", "prepare"} => me.cmd = "prepare"
    PROVE  Follows
<1>1. Course(me')
  BY DEF Course, At, WritesTo, FinishesTo, HandshakePCs, NoPkt
<1>2. CanSend(me') => CanSend(me)
  BY DEF CanSend
<1> QED
  BY <1>1, <1>2 DEF Follows

LEMMA CloseRowsFollows ==
    ASSUME TypeOK, Course(me), ~Winding(me), NEW e, CloseRows(e), e # "ErrBadConn"
    PROVE  Follows
<1> DEFINE e2 == IF me.err = "none" THEN e ELSE me.err
<1>1. me' = [me EXCEPT !.pc = "finish", !.then = "drain", !.got = NoPkt, !.part = NoPkt,
                       !.bad = FALSE, !.err = e2]
  BY DEF CloseRows
<1>2. e2 # "ErrBadConn"
  BY DEF Course
<1> HIDE DEF e2
<1>3. /\ me'.pc = "finish" /\ me'.then = "drain" /\ me'.err = e2 /\ me'.cmd = me.cmd
      /\ me'.got = NoPkt /\ me'.part = NoPkt
  BY <1>1 DEF TypeOK, Caller
<1> QED
  BY <1>2, <1>3, OnFollows DEF NoPkt

\* A command is written by a caller that may send it.
LEMMA WriteFollows ==
    ASSUME TypeOK, Course(me), ~Winding(me), NEW cmd, NEW k, Write(cmd, k),
           cmd \in {"query", "execute", "begin", "ping", "prepare", "longData", "isolation",
                    "endTx"},
           cmd # "endTx" => CanSend(me), cmd = "endTx" => Mode(cmd) = "endTx"
    PROVE  Follows
<1> DEFINE m == Mode(cmd)
           t == Reader(cmd)
<1>1. me' = [me EXCEPT !.pc = "write", !.cmd = cmd, !.arg = "none", !.left = k,
                       !.mode = m, !.then = t]
  BY DEF Write
<1>2. /\ m \in {"exec", "query", "prepare", "endTx"}
      /\ cmd = "prepare" <=> m = "prepare"
      /\ cmd = "endTx" <=> m = "endTx"
  BY DEF Mode
<1>3. /\ t \in ReplyPCs
      /\ t = "execute" <=> cmd = "longData"
      /\ t = "prepared" <=> cmd = "prepare"
  BY DEF Reader, ReplyPCs
<1> HIDE DEF m, t
<1>4. /\ me'.pc = "write" /\ me'.cmd = cmd /\ me'.mode = m /\ me'.then = t
      /\ me'.err = me.err /\ me'.got = me.got /\ me'.part = me.part
  BY <1>1 DEF TypeOK, Caller
<1>5. Course(me')
  BY <1>2, <1>3, <1>4 DEF Course, At, WritesTo, FinishesTo, HandshakePCs, ReplyPCs
<1>6. CanSend(me') => CanSend(me)
  BY <1>2, <1>4 DEF CanSend, Course, Main
<1> QED
  BY <1>5, <1>6 DEF Follows

LEMMA SendFollows == OwnInv /\ Course(me) /\ Send => Follows
<1> SUFFICES ASSUME OwnInv, Course(me), Send PROVE Follows
  OBVIOUS
<1>1. TypeOK /\ me.c \in Conn /\ me.pc = "send"
  BY SessionFacts DEF Send, SessionPCs, OwnInv
<1>2. ~Winding(me)
  BY <1>1 DEF Winding, At, FinishesTo
<1>3. PICK cmd \in Command :
         LET long == cmd \in {"query", "prepare"}
         IN  \/ /\ conn[me.c].closed \/ Busy(me.c)
                /\ End(CASE conn[me.c].closed /\ cmd = "endTx" -> ErrorOf(me.c)
                         [] conn[me.c].closed /\ cmd # "endTx" -> "ErrBadConn"
                         [] OTHER -> MarkBadConn(cmd, "ErrBusyBuffer"))
                /\ UNCHANGED conn
             \/ /\ ~conn[me.c].closed /\ ~Busy(me.c) /\ long
                /\ End(MarkBadConn(cmd, "ErrPktTooLarge"))
                /\ UNCHANGED conn
             \/ /\ ~conn[me.c].closed /\ ~Busy(me.c)
                /\ \E k \in 1 .. (IF long THEN MaxFrames ELSE 1) : Write(cmd, k)
  BY Zenon DEF Send
<1>4. /\ cmd \in {"query", "begin", "ping", "prepare", "isolation", "endTx"}
      /\ cmd = "endTx" => me.mode = "endTx"
      /\ cmd # "endTx" => me.cmd \in {"none", "isolation"}
  BY DEF Command
<1>5. cmd # "endTx" => CanSend(me)
  BY <1>4 DEF CanSend, Main
<1> DEFINE e1 == CASE conn[me.c].closed /\ cmd = "endTx" -> ErrorOf(me.c)
                   [] conn[me.c].closed /\ cmd # "endTx" -> "ErrBadConn"
                   [] OTHER -> MarkBadConn(cmd, "ErrBusyBuffer")
           e2 == MarkBadConn(cmd, "ErrPktTooLarge")
<1> HIDE DEF e1, e2
<1>6. CASE End(e1)
  BY <1>1, <1>4, <1>5, <1>6, EndFollows
<1>7. CASE End(e2)
  BY <1>1, <1>4, <1>5, <1>7, EndFollows
<1>8. CASE \E k \in 1 .. (IF cmd \in {"query", "prepare"} THEN MaxFrames ELSE 1) : Write(cmd, k)
  <2>1. PICK k : Write(cmd, k)
    BY <1>8
  <2>2. cmd = "endTx" => Mode(cmd) = "endTx"
    BY DEF Mode
  <2> QED
    BY <1>1, <1>2, <1>4, <1>5, <2>1, <2>2, WriteFollows
<1> QED
  BY <1>3, <1>6, <1>7, <1>8, Zenon DEF e1, e2

LEMMA SendExecuteFollows == OwnInv /\ Course(me) /\ SendExecute => Follows
<1> SUFFICES ASSUME OwnInv, Course(me), SendExecute PROVE Follows
  OBVIOUS
<1>1. TypeOK /\ me.c \in Conn /\ me.pc = "execute"
  BY SessionFacts DEF SendExecute, SessionPCs, ReplyPCs, OwnInv
<1>2. ~Winding(me) /\ me.cmd \in {"stmt", "longData"}
  BY <1>1 DEF Winding, At, FinishesTo, Course
<1>3. CanSend(me)
  BY <1>2 DEF CanSend, Main
<1>4. \/ \E e : End(e)
      \/ \E k : Write("execute", k)
      \/ \E k : Write("longData", k)
  BY DEF SendExecute, SendLongData
<1> QED
  BY <1>1, <1>2, <1>3, <1>4, EndFollows, WriteFollows

LEMMA WriteFailedFollows == OwnInv /\ Course(me) /\ WriteFailed => Follows
<1> SUFFICES ASSUME OwnInv, Course(me), WriteFailed PROVE Follows
  OBVIOUS
<1>1. TypeOK /\ me.pc = "failed"
  BY DEF OwnInv, WriteFailed
<1>2. CASE me.cmd = "stmtClose" /\ me' = [me EXCEPT !.pc = "release", !.got = NoPkt]
  <2>1. /\ me'.pc = "release" /\ me'.cmd = me.cmd /\ me'.err = me.err /\ me'.mode = me.mode
        /\ me'.got = NoPkt /\ me'.part = me.part
    BY <1>1, <1>2 DEF TypeOK, Caller
  <2>2. Course(me')
    BY <2>1 DEF Course, At, WritesTo, FinishesTo, Winding, HandshakePCs, NoPkt
  <2>3. CanSend(me') => CanSend(me)
    BY <2>1 DEF CanSend
  <2> QED
    BY <2>2, <2>3 DEF Follows
<1>3. CASE me.cmd # "stmtClose" /\ End(MarkBadConn(me.cmd, me.got.kind))
  <2>1. CanSend(me) \/ me.mode = "endTx"
    BY <1>1, <1>3 DEF CanSend, Course, At
  <2> QED
    BY <1>1, <1>3, <2>1, EndFollows
<1> QED
  BY <1>2, <1>3 DEF WriteFailed

LEMMA GotKinds ==
    ASSUME Course(me)
    PROVE  /\ me.got.kind # "ErrBadConn" /\ Error # "ErrBadConn"
           /\ \A c \in Conn : ErrorOf(c) # "ErrBadConn"
BY DEF Course, Error, ErrorOf, CanceledOr

LEMMA DiscardFollows ==
    ASSUME TypeOK, Course(me), me.pc \in {"header", "skip"}, NEW b \in BOOLEAN, DiscardResults(b)
    PROVE  Follows
<1>1. ~Winding(me) /\ me.mode \notin {"params", "prepare"} /\ me.err # "ErrBadConn"
      /\ me.part.kind # "ErrBadConn"
  BY DEF Winding, At, FinishesTo, Course
<1>2. CASE me' = [me EXCEPT !.pc = "header", !.got = NoPkt, !.rsDone = FALSE]
  BY <1>1, <1>2, OnFollows DEF TypeOK, Caller
<1>3. CASE me' = [me EXCEPT !.pc = "send", !.got = NoPkt]
  BY <1>1, <1>3, OnFollows DEF TypeOK, Caller
<1>4. CASE me' = [me EXCEPT !.pc = "finish", !.then = "inTx", !.got = NoPkt]
  BY <1>1, <1>4, OnFollows DEF TypeOK, Caller
<1>5. CASE End("none")
  BY <1>5, EndFollows
<1> QED
  BY <1>2, <1>3, <1>4, <1>5 DEF DiscardResults

LEMMA ReadHeaderFollows == OwnInv /\ Course(me) /\ ReadHeader => Follows
<1> SUFFICES ASSUME OwnInv, Course(me), ReadHeader PROVE Follows
  OBVIOUS
<1>1. TypeOK /\ me.pc = "header" /\ me.c \in Conn /\ More \in BOOLEAN
  BY SessionFacts DEF OwnInv, ReadHeader, More, SessionPCs, ReplyPCs
<1>2. ~Winding(me) /\ me.mode \notin {"params", "prepare"} /\ me.err # "ErrBadConn"
      /\ me.part.kind # "ErrBadConn"
  BY <1>1 DEF Winding, At, FinishesTo, Course
<1>3. CASE NoRows
  BY <1>1, <1>2, <1>3, OnFollows DEF NoRows, TypeOK, Caller
<1>4. ASSUME NEW b \in BOOLEAN, NextNotEmptyResultSet(b) PROVE Follows
  <2>1. CASE End(ErrorOf(me.c))
    BY <1>1, <2>1, EndFollows, GotKinds
  <2>2. CASE me' = [me EXCEPT !.mode = "loop", !.got = NoPkt, !.rsDone = FALSE, !.mc = FALSE]
    BY <1>1, <1>2, <2>2, OnFollows DEF TypeOK, Caller
  <2> QED
    BY <1>3, <1>4, <2>1, <2>2 DEF NextNotEmptyResultSet
<1>5. CASE me' = [me EXCEPT !.pc = "columns", !.left = Columns, !.got = NoPkt]
  BY <1>1, <1>2, <1>5, OnFollows DEF TypeOK, Caller
<1>6. \/ End(Error)
      \/ NoRows
      \/ NextNotEmptyResultSet(More)
      \/ DiscardResults(More)
      \/ me' = [me EXCEPT !.pc = "columns", !.left = Columns, !.got = NoPkt]
  BY DEF ReadHeader
<1> QED
  BY <1>1, <1>3, <1>4, <1>5, <1>6, EndFollows, GotKinds, DiscardFollows

LEMMA AfterColumnsFollows ==
    ASSUME TypeOK, Course(me), me.pc \in {"columns", "eof"}, AfterColumns
    PROVE  Follows
<1>1. /\ ~Winding(me) /\ me.err # "ErrBadConn" /\ me.part.kind # "ErrBadConn"
      /\ me.mode \in {"params", "prepare"} => me.cmd = "prepare"
  BY DEF Winding, At, FinishesTo, Course
<1>2. CASE /\ me.mode = "params"
           /\ me' = [me EXCEPT !.pc = "columns", !.left = Columns, !.mode = "prepare",
                               !.got = NoPkt]
  BY <1>1, <1>2, OnFollows DEF TypeOK, Caller
<1>3. CASE /\ me.mode = "prepare"
           /\ me' = [me EXCEPT !.pc = "finish", !.then = "stmt", !.cmd = "stmt", !.got = NoPkt]
  <2>1. /\ me'.pc = "finish" /\ me'.then = "stmt" /\ me'.cmd = "stmt" /\ me'.err = me.err
        /\ me'.got = NoPkt /\ me'.part = me.part
    BY <1>3 DEF TypeOK, Caller
  <2>2. Course(me')
    BY <1>1, <2>1 DEF Course, At, WritesTo, FinishesTo, HandshakePCs, NoPkt
  <2>3. CanSend(me)
    BY <1>1, <1>3 DEF CanSend, Main
  <2> QED
    BY <2>2, <2>3 DEF Follows
<1>4. CASE me' = [me EXCEPT !.pc = "rows", !.got = NoPkt, !.rsDone = FALSE, !.mc = TRUE]
  BY <1>1, <1>4, OnFollows DEF TypeOK, Caller
<1>5. CASE me.mode \notin {"params", "prepare"} /\ me' = [me EXCEPT !.pc = "skip", !.got = NoPkt]
  BY <1>1, <1>5, OnFollows DEF TypeOK, Caller
<1> QED
  BY <1>2, <1>3, <1>4, <1>5 DEF AfterColumns, Prepare, Goto

LEMMA ReadAnswerFollows ==
    OwnInv /\ Course(me) /\ (ReadPrepared \/ ReadColumn \/ SkipEof \/ SkipRow) => Follows
<1> SUFFICES ASSUME OwnInv, Course(me), ReadPrepared \/ ReadColumn \/ SkipEof \/ SkipRow
             PROVE  Follows
  OBVIOUS
<1>1. TypeOK /\ me.pc \in {"prepared", "columns", "eof", "skip"} /\ More \in BOOLEAN
  BY DEF OwnInv, ReadPrepared, ReadColumn, SkipEof, SkipRow, More
<1>2. ~Winding(me) /\ me.err # "ErrBadConn" /\ me.part.kind # "ErrBadConn"
  BY <1>1 DEF Winding, At, FinishesTo, Course
<1>3. CASE \E e : e # "ErrBadConn" /\ End(e)
  BY <1>1, <1>3, EndFollows
<1>4. CASE /\ me.pc = "prepared"
           /\ me' = [me EXCEPT !.pc = "columns", !.left = 1, !.mode = "params", !.got = NoPkt]
  <2>1. me.cmd = "prepare"
    BY <1>4 DEF Course, At
  <2> QED
    BY <1>1, <1>2, <1>4, <2>1, OnFollows DEF TypeOK, Caller
<1>5. CASE \E l : me.pc = "columns" /\ me' = [me EXCEPT !.left = l, !.got = NoPkt]
  <2>1. me.mode \in {"params", "prepare"} => me.cmd = "prepare"
    BY <1>5 DEF Course, At
  <2>2. me'.pc = "columns" /\ me'.mode = me.mode /\ me'.cmd = me.cmd /\ me'.err = me.err
        /\ me'.got = NoPkt /\ me'.part = me.part
    BY <1>1, <1>5 DEF TypeOK, Caller
  <2> QED
    BY <1>2, <2>1, <2>2, OnFollows
<1>6. CASE me.pc = "columns" /\ Goto("eof")
  <2>1. me.mode \in {"params", "prepare"} => me.cmd = "prepare"
    BY <1>6 DEF Course, At
  <2> QED
    BY <1>1, <1>2, <1>6, <2>1, OnFollows DEF Goto, TypeOK, Caller
<1>7. CASE me.pc = "skip" /\ Goto("skip")
  <2>1. me.mode \notin {"params", "prepare"}
    BY <1>7 DEF Course, At
  <2> QED
    BY <1>1, <1>2, <1>7, <2>1, OnFollows DEF Goto, TypeOK, Caller
<1>8. \/ Failed /\ End(Error)
      \/ IsErr(me.got) /\ End(me.got.kind)
      \/ /\ me.pc = "prepared"
         /\ me' = [me EXCEPT !.pc = "columns", !.left = 1, !.mode = "params", !.got = NoPkt]
      \/ me.pc = "columns" /\ me' = [me EXCEPT !.left = me.left - 1, !.got = NoPkt]
      \/ me.pc = "columns" /\ Goto("eof")
      \/ me.pc = "skip" /\ Goto("skip")
      \/ me.pc \in {"columns", "eof"} /\ AfterColumns
      \/ me.pc = "skip" /\ DiscardResults(More)
  BY DEF ReadPrepared, ReadColumn, SkipEof, SkipRow
<1> QED
  BY <1>1, <1>3, <1>4, <1>5, <1>6, <1>7, <1>8, GotKinds, AfterColumnsFollows, DiscardFollows

LEMMA ReadRowFollows == OwnInv /\ Course(me) /\ (ReadTextRow \/ ReadBinaryRow) => Follows
<1> SUFFICES ASSUME OwnInv, Course(me), ReadTextRow \/ ReadBinaryRow PROVE Follows
  OBVIOUS
<1>1. TypeOK /\ me.pc = "next" /\ More \in BOOLEAN
  BY DEF OwnInv, ReadTextRow, ReadBinaryRow, More
<1>2. ~Winding(me) /\ me.err # "ErrBadConn" /\ me.part.kind # "ErrBadConn"
  BY <1>1 DEF Winding, At, FinishesTo, Course
<1>3. CASE RowsEnd
  <2> DEFINE p == IF More THEN "rows" ELSE "finish"
             t == IF More THEN me.then ELSE "drain"
             b == More
  <2>1. me' = [me EXCEPT !.pc = p, !.then = t, !.got = NoPkt, !.rsDone = TRUE, !.mc = b]
    BY <1>3 DEF RowsEnd
  <2>2. p = "rows" \/ (p = "finish" /\ t = "drain")
    OBVIOUS
  <2> HIDE DEF p, t, b
  <2> QED
    BY <1>1, <1>2, <2>1, <2>2, OnFollows DEF TypeOK, Caller
<1>4. CASE RowsFail
  BY <1>1, <1>2, <1>4, OnFollows DEF RowsFail, TypeOK, Caller
<1>5. CASE RowRead
  <2> DEFINE r == me.rows + 1
  <2>1. me' = [me EXCEPT !.pc = "rows", !.got = NoPkt, !.rows = r]
    BY <1>5 DEF RowRead
  <2> HIDE DEF r
  <2> QED
    BY <1>1, <1>2, <2>1, OnFollows DEF TypeOK, Caller
<1>6. CASE CloseRows(me.got.kind)
  BY <1>1, <1>2, <1>6, GotKinds, CloseRowsFollows
<1> QED
  BY <1>3, <1>4, <1>5, <1>6 DEF ReadTextRow, ReadBinaryRow

LEMMA NextRowFollows ==
    OwnInv /\ Course(me) /\ (NextRow \/ AwaitDone \/ StopScanning \/ Drain \/ ReadResultOK)
        => Follows
<1> SUFFICES ASSUME OwnInv, Course(me),
                    NextRow \/ AwaitDone \/ StopScanning \/ Drain \/ ReadResultOK
             PROVE  Follows
  OBVIOUS
<1>1. TypeOK /\ me.pc \in {"rows", "drain", "ok"} /\ me.c \in Conn
  <2>1. me.pc \in {"rows", "drain", "ok"}
    BY DEF NextRow, AwaitDone, StopScanning, Drain, ReadResultOK
  <2> QED
    BY <2>1, SessionFacts DEF OwnInv, SessionPCs, ReplyPCs, BetweenPCs
<1>2. ~Winding(me) /\ me.err # "ErrBadConn" /\ me.part.kind # "ErrBadConn"
  BY <1>1 DEF Winding, At, FinishesTo, Course
<1>3. CASE \E e : e # "ErrBadConn" /\ End(e)
  BY <1>1, <1>3, EndFollows
<1>4. CASE \E e : e # "ErrBadConn" /\ CloseRows(e)
  BY <1>1, <1>2, <1>4, CloseRowsFollows
<1>5. CASE Goto("next")
  BY <1>1, <1>2, <1>5, OnFollows DEF Goto, TypeOK, Caller
<1>6. ASSUME NEW p \in {"skip", "header"}, me' = [me EXCEPT !.pc = p, !.mode = "closing"]
      PROVE  Follows
  <2>1. /\ me'.pc = p /\ me'.mode = "closing" /\ me'.cmd = me.cmd /\ me'.err = me.err
        /\ me'.got = me.got /\ me'.part = me.part
    BY <1>1, <1>6 DEF TypeOK, Caller
  <2>2. Course(me')
    BY <1>2, <2>1 DEF Course, At, WritesTo, FinishesTo, HandshakePCs
  <2>3. CanSend(me') => CanSend(me)
    BY <1>2, <2>1 DEF CanSend
  <2> QED
    BY <2>2, <2>3 DEF Follows
<1>7. \/ End("none") \/ End(ErrorOf(me.c)) \/ End(Error)
      \/ CloseRows("none") \/ CloseRows(ErrorOf(me.c)) \/ CloseRows("ErrTooLarge")
      \/ CloseRows("canceled") \/ Goto("next")
      \/ me' = [me EXCEPT !.pc = "skip", !.mode = "closing"]
      \/ me' = [me EXCEPT !.pc = "header", !.mode = "closing"]
  BY DEF NextRow, AwaitDone, StopScanning, Drain, ReadResultOK
<1>8. ErrorOf(me.c) # "ErrBadConn" /\ Error # "ErrBadConn"
  BY <1>1, GotKinds
<1> QED
  BY <1>3, <1>4, <1>5, <1>6, <1>7, <1>8

LEMMA CloseStmtFollows == OwnInv /\ Course(me) /\ (CloseStmt \/ EndTx) => Follows
<1> SUFFICES ASSUME OwnInv, Course(me), CloseStmt \/ EndTx PROVE Follows
  OBVIOUS
<1>1. TypeOK
  BY DEF OwnInv
<1>2. CASE me.pc = "closeStmt" /\ me' = [me EXCEPT !.pc = "release"]
  <2>1. /\ me'.pc = "release" /\ me'.mode = me.mode /\ me'.cmd = me.cmd /\ me'.err = me.err
        /\ me'.got = me.got /\ me'.part = me.part
    BY <1>1, <1>2 DEF TypeOK, Caller
  <2>2. Course(me')
    BY <2>1 DEF Course, At, WritesTo, FinishesTo, HandshakePCs, Winding
  <2>3. CanSend(me') => CanSend(me)
    BY <2>1 DEF CanSend
  <2> QED
    BY <2>2, <2>3 DEF Follows
<1>3. CASE me.pc = "closeStmt" /\ me' = [me EXCEPT !.pc = "write", !.cmd = "stmtClose", !.left = 1,
                                                   !.then = "release"]
  <2>1. /\ me'.pc = "write" /\ me'.then = "release" /\ me'.mode = me.mode
        /\ me'.cmd = "stmtClose" /\ me'.err = me.err
        /\ me'.got = me.got /\ me'.part = me.part
    <3> DEFINE l == 1
    <3>1. me' = [me EXCEPT !.pc = "write", !.cmd = "stmtClose", !.left = l, !.then = "release"]
      BY <1>3
    <3> HIDE DEF l
    <3> QED
      BY <1>1, <3>1 DEF TypeOK, Caller
  <2>2. Course(me')
    BY <2>1 DEF Course, At, WritesTo, FinishesTo, HandshakePCs, Winding
  <2>3. CanSend(me') => CanSend(me)
    BY <2>1 DEF CanSend, Main
  <2> QED
    BY <2>2, <2>3 DEF Follows
<1>4. CASE me.pc = "inTx" /\ me' = [me EXCEPT !.pc = "send", !.mode = "endTx"]
  <2>1. /\ me'.pc = "send" /\ me'.mode = "endTx" /\ me'.cmd = me.cmd /\ me'.err = me.err
        /\ me'.got = me.got /\ me'.part = me.part
    BY <1>1, <1>4 DEF TypeOK, Caller
  <2>2. Course(me')
    BY <1>4, <2>1 DEF Course, At, WritesTo, FinishesTo, HandshakePCs, Winding
  <2>3. CanSend(me') => CanSend(me)
    BY <2>1 DEF CanSend
  <2> QED
    BY <2>2, <2>3 DEF Follows
<1> QED
  BY <1>2, <1>3, <1>4 DEF CloseStmt, EndTx

LEMMA SessionFollows == OwnInv /\ Course(me) /\ SessionAction => Follows
BY SendFollows, SendExecuteFollows, WriteFailedFollows, ReadHeaderFollows, ReadAnswerFollows,
   ReadRowFollows, NextRowFollows, CloseStmtFollows DEF SessionAction

\* What a step that sends nothing keeps.
SentKeeps ==
    /\ Drained /\ ran' = ran /\ me'.n = me.n
    /\ Course(me')
    /\ me'.pc # "idle" /\ CanSend(me') => me.pc # "idle" /\ CanSend(me)

LEMMA WireSent ==
    OwnInv /\ Course(me) /\ (ReadFails \/ ReadFrame \/ Finish \/ Fill \/ \E n \in {0, 1} : WriteFails(n))
        /\ UNCHANGED srvVars
        => SentKeeps
<1> SUFFICES ASSUME OwnInv, Course(me), UNCHANGED srvVars,
                    ReadFails \/ ReadFrame \/ Finish \/ Fill \/ \E n \in {0, 1} : WriteFails(n)
             PROVE  SentKeeps
  OBVIOUS
<1>1. TypeOK /\ me \in Caller /\ me.c \in Conn /\ me.pc # "idle" /\ ran' = ran
  <2>1. me.pc \in ReadPCs \cup {"write", "finish"}
    BY Zenon DEF Fill, ReadFails, ReadFrame, Reading, Finish, WriteFails
  <2>2. me.pc # "idle"
    BY <2>1 DEF ReadPCs
  <2> QED
    BY <2>1, <2>2, ReadingFacts DEF OwnInv, CallerInv, TypeOK, srvVars
<1>2. ASSUME NEW p, NEW b, p.kind # "ErrBadConn",
             \/ me' = [me EXCEPT !.got = p, !.part = NoPkt, !.bad = FALSE]
             \/ me' = [me EXCEPT !.part = p, !.bad = b]
      PROVE  me'.n = me.n /\ Follows
  <2>1. /\ me'.n = me.n /\ me'.pc = me.pc /\ me'.then = me.then /\ me'.mode = me.mode
        /\ me'.cmd = me.cmd /\ me'.err = me.err
        /\ me'.got \in {p, me.got} /\ me'.part \in {p, NoPkt}
    BY <1>1, <1>2, ZenonT(60) DEF Caller
  <2>2. me'.got.kind # "ErrBadConn" /\ me'.part.kind # "ErrBadConn"
    BY <1>2, <2>1 DEF Course, NoPkt
  <2>3. Course(me')
    BY <2>1, <2>2 DEF Course, At, WritesTo, FinishesTo, Winding
  <2>4. CanSend(me') => CanSend(me)
    BY <2>1 DEF CanSend
  <2> QED
    BY <2>1, <2>3, <2>4 DEF Follows
<1>3. \A c \in Conn : \A e : e # "ErrBadConn" => Err(CanceledOr(c, e)).kind # "ErrBadConn"
  BY DEF Err, CanceledOr
<1>4. CASE ReadFails
  <2> DEFINE p == Err(CanceledOr(me.c, "ErrInvalidConn"))
  <2>1. me' = [me EXCEPT !.got = p, !.part = NoPkt, !.bad = FALSE] /\ Cleanup(me.c)
    BY <1>4 DEF ReadFails, Got
  <2>2. p.kind # "ErrBadConn"
    BY <1>1, <1>3
  <2> HIDE DEF p
  <2> QED
    BY <1>1, <1>2, <2>1, <2>2, CleanupDrained DEF Follows, SentKeeps
<1>5. CASE ReadFrame
  <2> DEFINE f == Head(conn[me.c].buf)
             pkt == IF me.part = NoPkt THEN [kind |-> f.kind, own |-> f.own, arg |-> f.arg]
                    ELSE me.part
             bad == me.bad \/ OutOfSync(f)
  <2>1. f \in ServerFrame
    <3>1. conn[me.c] \in Connection /\ conn[me.c].buf # <<>>
      BY <1>1, <1>5, Zenon DEF TypeOK, ReadFrame, Busy
    <3>2. conn[me.c].buf \in Seq(ServerFrame)
      BY <3>1 DEF Connection
    <3> QED
      BY <3>1, <3>2
  <2>2. pkt.kind # "ErrBadConn"
    <3> HIDE DEF f
    <3>1. f.kind # "ErrBadConn"
      BY <2>1 DEF ServerFrame, PacketKind
    <3> QED
      BY <3>1 DEF Course
  <2>3. \/ Got(Err("ErrPktSyncMul")) \/ Got(Err("ErrInvalidConn")) \/ Got(Err("ErrPktSync"))
        \/ Got(pkt) \/ me' = [me EXCEPT !.part = pkt, !.bad = bad]
    BY <1>5, Zenon DEF ReadFrame
  <2> DEFINE n == net[me.c]
             s == <<>>
             x == [n EXCEPT !.out = s]
  <2>4. n \in Socket /\ (net' = [net EXCEPT ![me.c] = x] \/ UNCHANGED net)
    BY <1>1, <1>5, Zenon DEF ReadFrame, TypeOK, CloseNet
  <2> HIDE DEF f, pkt, bad, n, s
  <2>5. x.in = n.in
    BY <2>4 DEF Socket
  <2> HIDE DEF x
  <2>6. Drained
    BY <1>1, <2>4, <2>5, SameInDrained, NetSame DEF n
  <2>7. /\ Err("ErrPktSyncMul").kind # "ErrBadConn" /\ Err("ErrInvalidConn").kind # "ErrBadConn"
        /\ Err("ErrPktSync").kind # "ErrBadConn"
    BY DEF Err
  <2>8. me'.n = me.n /\ Follows
    BY <1>2, <2>2, <2>3, <2>7, Zenon DEF Got
  <2> QED
    BY <1>1, <2>6, <2>8 DEF Follows, SentKeeps
<1>6. CASE Finish
  <2>1. /\ me'.pc = me.then /\ me'.then = me.then /\ me'.mode = me.mode /\ me'.n = me.n
        /\ me'.cmd = me.cmd /\ me'.err = me.err /\ me'.got = me.got /\ me'.part = me.part
    BY <1>1, <1>6 DEF Finish, Caller
  <2>2. me.pc = "finish" /\ me.then \in BetweenPCs \cup {"connectFailed"}
    BY <1>6 DEF Finish, OwnInv, CallerInv
  <2>3. Course(me')
    BY <2>1, <2>2 DEF Course, At, WritesTo, FinishesTo, Winding, BetweenPCs, HandshakePCs
  <2>4. CanSend(me') => CanSend(me)
    BY <2>1, <2>2 DEF CanSend, BetweenPCs
  <2> QED
    BY <1>1, <1>6, <2>1, <2>3, <2>4, NetSame DEF Finish, SentKeeps
<1>7. CASE \E n \in {0, 1} : WriteFails(n)
  <2>1. PICK e : e # "ErrBadConn" /\ me' = [me EXCEPT !.pc = "failed", !.got = Err(CanceledOr(me.c, e))]
                 /\ me.pc = "write" /\ Cleanup(me.c)
    BY <1>7 DEF WriteFails
  <2> DEFINE p == Err(CanceledOr(me.c, e))
  <2>2. p.kind # "ErrBadConn" /\ me' = [me EXCEPT !.pc = "failed", !.got = p]
    BY <1>1, <1>3, <2>1
  <2> HIDE DEF p
  <2>3. /\ me'.pc = "failed" /\ me'.then = me.then /\ me'.mode = me.mode /\ me'.n = me.n
        /\ me'.cmd = me.cmd /\ me'.err = me.err /\ me'.got = p /\ me'.part = me.part
    BY <1>1, <2>2 DEF Caller
  <2>4. Course(me')
    BY <2>1, <2>2, <2>3 DEF Course, At, WritesTo, FinishesTo, Winding, HandshakePCs
  <2>5. CanSend(me') => CanSend(me)
    BY <2>1, <2>3 DEF CanSend
  <2> QED
    BY <1>1, <2>1, <2>3, <2>4, <2>5, CleanupDrained DEF SentKeeps
<1>8. CASE Fill
  <2>1. me' = me
    BY <1>8 DEF Fill
  <2> DEFINE n == net[me.c]
  <2>2. PICK t : net' = [net EXCEPT ![me.c].out = t]
    BY <1>8 DEF Fill
  <2>3. net' = [net EXCEPT ![me.c] = [n EXCEPT !.out = t]] /\ n \in Socket
    BY <1>1, <2>2 DEF TypeOK
  <2> HIDE DEF n
  <2>4. [n EXCEPT !.out = t].in = n.in
    BY <2>3 DEF Socket
  <2>5. Drained
    BY <1>1, <2>3, <2>4, SameInDrained DEF n
  <2> QED
    BY <1>1, <2>1, <2>5, UnmovedFollows DEF Follows, SentKeeps
<1> QED
  BY <1>4, <1>5, <1>6, <1>7, <1>8

\* Replies of the handshake, and its failures.
LEMMA ReplySent ==
    ASSUME TypeOK, Course(me), me.pc \in HandshakePCs, NEW cmd \in AuthCmds, NEW a,
           NEW then \in HandshakePCs, Reply(cmd, a, then)
    PROVE  me'.n = me.n /\ Follows
<1>1. me.cmd \in HsCmds /\ me.err # "ErrBadConn"
  BY DEF Course, At, Winding, FinishesTo, HandshakePCs
<1>2. CanSend(me)
  BY <1>1, CmdFacts DEF CanSend
<1> DEFINE l == 1
<1>3. me' = [me EXCEPT !.pc = "write", !.cmd = cmd, !.arg = a, !.left = l, !.then = then,
                       !.got = NoPkt]
  BY DEF Reply
<1> HIDE DEF l
<1>4. /\ me'.pc = "write" /\ me'.cmd = cmd /\ me'.then = then /\ me'.got = NoPkt
      /\ me'.n = me.n /\ me'.err = me.err /\ me'.part = me.part /\ me'.mode = me.mode
  BY <1>3 DEF TypeOK, Caller
<1>5. cmd \in HsCmds /\ cmd \notin {"endTx", "stmtClose", "stmt", "longData", "prepare"}
  BY CmdFacts
<1>6. Course(me')
  BY <1>1, <1>4, <1>5 DEF Course, At, WritesTo, FinishesTo, HandshakePCs, NoPkt
<1> QED
  BY <1>2, <1>4, <1>6 DEF Follows

LEMMA ConnectFailsSent ==
    ASSUME TypeOK, me.c \in Conn, Course(me), NEW e, e # "ErrBadConn", ConnectFails(e)
    PROVE  Drained /\ me'.n = me.n /\ Follows
<1>1. me' = [me EXCEPT !.pc = "finish", !.then = "connectFailed", !.err = e,
                       !.got = NoPkt, !.part = NoPkt, !.bad = FALSE]
  BY DEF ConnectFails
<1>2. /\ me'.pc = "finish" /\ me'.then = "connectFailed" /\ me'.err = e /\ me'.got = NoPkt
      /\ me'.part = NoPkt /\ me'.n = me.n /\ me'.cmd = me.cmd /\ me'.mode = me.mode
  BY <1>1 DEF TypeOK, Caller
<1>3. Course(me')
  BY <1>2 DEF Course, At, WritesTo, FinishesTo, Winding, HandshakePCs, NoPkt
<1>4. CanSend(me') => CanSend(me)
  BY <1>2 DEF CanSend
<1> QED
  BY <1>2, <1>3, <1>4, CleanupDrained DEF Follows, ConnectFails

\* Going on, within Connect, with no command of the call.
LEMMA ConnectingFollows ==
    ASSUME Course(me), me.cmd \in HsCmds, me'.cmd \in HsCmds, me'.err # "ErrBadConn",
           me'.got.kind # "ErrBadConn", me'.part.kind # "ErrBadConn",
           \/ me'.pc \in {"dial", "reset", "watch", "connectFailed"} \cup HandshakePCs
           \/ me'.pc = "finish" /\ me'.then = "watch"
    PROVE  Follows
<1>1. Course(me')
  BY DEF Course, At, WritesTo, FinishesTo, HandshakePCs
<1>2. CanSend(me)
  BY CmdFacts DEF CanSend
<1> QED
  BY <1>1, <1>2 DEF Follows

LEMMA ConnectSent ==
    OwnInv /\ Course(me) /\ (ConnectStep \/ DialFails) /\ UNCHANGED srvVars => SentKeeps
<1> SUFFICES ASSUME OwnInv, Course(me), ConnectStep \/ DialFails, UNCHANGED srvVars
             PROVE  SentKeeps
  OBVIOUS
<1>1. /\ TypeOK /\ me \in Caller /\ me.c \in Conn /\ me.pc \in HandshakePCs \cup {"dial", "failed"}
      /\ me.pc # "idle" /\ ran' = ran
  <2>1. me.pc \in HandshakePCs \cup {"dial", "failed"}
    BY Zenon DEF ConnectStep, Dial, ReadHandshakePacket, SwitchToTLS, HandleAuthResult,
       ReadPublicKey, ReadAuthOK, HandshakeWriteFails, DialFails, HandshakePCs
  <2> QED
    BY <2>1 DEF OwnInv, CallerInv, HandshakePCs, TypeOK, srvVars
<1>2. me.pc # "failed" => me.cmd \in HsCmds /\ me.err # "ErrBadConn"
  BY <1>1 DEF Course, At, Winding, FinishesTo, HandshakePCs
<1>3. me.got.kind # "ErrBadConn" /\ me.part.kind # "ErrBadConn" /\ NoPkt.kind # "ErrBadConn"
      /\ CanceledOr(me.c, "ErrSetup") # "ErrBadConn"
  BY DEF Course, NoPkt, CanceledOr
<1>4. SUFFICES Drained /\ me'.n = me.n /\ Follows
  BY <1>1 DEF SentKeeps, Follows
<1>5. CASE \E e : e # "ErrBadConn" /\ ConnectFails(e)
  BY <1>1, <1>5, ConnectFailsSent
<1>6. CASE Dial
  <2>1. me.pc = "dial" /\ conn[me.c] = NewConn
    BY <1>1, <1>6 DEF Dial, OwnInv, CallerInv, LinkInv, St
  <2>2. \/ me' = [me EXCEPT !.pc = "connectFailed", !.err = "canceled"]
        \/ me' = [me EXCEPT !.pc = "hello"]
    BY <1>6 DEF Dial
  <2>3. me'.n = me.n /\ Follows
    BY <1>1, <1>2, <1>3, <2>1, <2>2, ConnectingFollows, ZenonT(60) DEF Caller, HandshakePCs
  <2>4. PICK cap \in Announced, p \in Plugin \cup {"ERR"} :
           \/ net' = [net EXCEPT ![me.c] = NewNet]
           \/ net' = [net EXCEPT ![me.c] =
                        [NewNet EXCEPT !.out = <<IF p = "ERR" THEN Pkt("ERR", "none", 0, me.n)
                                                 ELSE Pkt("HELLO", p, 0, me.n)>>,
                                       !.ssl = cap.ssl, !.eof = cap.eof]]
    BY <1>6 DEF Dial
  <2> DEFINE o == <<IF p = "ERR" THEN Pkt("ERR", "none", 0, me.n) ELSE Pkt("HELLO", p, 0, me.n)>>
             s == cap.ssl
             b == cap.eof
             m == [NewNet EXCEPT !.out = o, !.ssl = s, !.eof = b]
  <2>5. net' = [net EXCEPT ![me.c] = NewNet] \/ net' = [net EXCEPT ![me.c] = m]
    BY <2>4
  <2> HIDE DEF o, s, b
  <2>6. NewNet.in = <<>> /\ m.in = <<>>
    BY DEF NewNet
  <2> HIDE DEF m
  <2>7. Drained
    BY <1>1, <2>5, <2>6, SameInDrained
  <2> QED
    BY <2>3, <2>7
<1>7. CASE DialFails
  <2>1. /\ me.pc = "dial" /\ me' = [me EXCEPT !.pc = "connectFailed", !.c = NoConn, !.err = "ErrSetup"]
        /\ UNCHANGED net
    BY <1>7 DEF DialFails
  <2>2. me'.n = me.n /\ Follows
    BY <1>1, <1>2, <1>3, <2>1, ConnectingFollows DEF Caller
  <2> QED
    BY <1>1, <2>1, <2>2, NetSame
<1>8. CASE ReadHandshakePacket
  <2>1. me.pc = "hello" /\ me.pc \in HandshakePCs
    BY <1>8 DEF ReadHandshakePacket, HandshakePCs
  <2>2. \/ \E e : e # "ErrBadConn" /\ ConnectFails(e)
        \/ /\ \E a : Reply("sslRequest", a, "tls") \/ Reply("auth", a, "authResult")
           /\ net' = [net EXCEPT ![me.c].ssl = FALSE, ![me.c].eof = FALSE]
    BY <1>3, <1>8 DEF ReadHandshakePacket
  <2>3. ASSUME NEW a, Reply("sslRequest", a, "tls") \/ Reply("auth", a, "authResult"),
               net' = [net EXCEPT ![me.c].ssl = FALSE, ![me.c].eof = FALSE]
        PROVE  Drained /\ me'.n = me.n /\ Follows
    <3> DEFINE n == net[me.c]
               x == [n EXCEPT !.ssl = FALSE, !.eof = FALSE]
    <3>1. net' = [net EXCEPT ![me.c] = x] /\ n \in Socket
      BY <1>1, <2>3 DEF TypeOK
    <3> HIDE DEF n
    <3>2. x.in = n.in
      BY <3>1 DEF Socket
    <3> HIDE DEF x
    <3>3. Drained
      BY <1>1, <3>1, <3>2, SameInDrained DEF n
    <3>4. {"sslRequest", "auth"} \subseteq AuthCmds /\ {"tls", "authResult"} \subseteq HandshakePCs
      BY DEF AuthCmds, HandshakePCs
    <3> QED
      BY <1>1, <2>1, <2>3, <3>3, <3>4, ReplySent
  <2> QED
    BY <1>5, <2>2, <2>3
<1>9. CASE SwitchToTLS \/ HandleAuthResult \/ ReadPublicKey \/ ReadAuthOK
  <2>1. me.pc \in HandshakePCs
    BY <1>9 DEF SwitchToTLS, HandleAuthResult, ReadPublicKey, ReadAuthOK, HandshakePCs
  <2>2. \/ \E e : e # "ErrBadConn" /\ ConnectFails(e)
        \/ /\ \E cmd \in AuthCmds, then \in HandshakePCs : \E a : Reply(cmd, a, then)
           /\ UNCHANGED net
        \/ Connected
        \/ me' = [me EXCEPT !.pc = "authOK", !.got = NoPkt] /\ UNCHANGED net
    <3>1. {"auth", "authSwitch", "password", "keyRequest", "encrypted"} \subseteq AuthCmds
          /\ {"authResult", "authOK", "authKey"} \subseteq HandshakePCs
      BY DEF AuthCmds, HandshakePCs
    <3> QED
      BY <1>3, <1>9, <3>1 DEF SwitchToTLS, HandleAuthResult, ReadPublicKey, ReadAuthOK
  <2>3. CASE \E cmd \in AuthCmds, then \in HandshakePCs : \E a : Reply(cmd, a, then) /\ UNCHANGED net
    BY <1>1, <2>1, <2>3, ReplySent, NetSame
  <2>4. CASE Connected
    <3>1. me' = [me EXCEPT !.pc = "finish", !.then = "watch", !.got = NoPkt,
                           !.cmd = "none", !.arg = "none"] /\ UNCHANGED net
      BY <2>4 DEF Connected
    <3>2. /\ me'.pc = "finish" /\ me'.then = "watch" /\ me'.got = NoPkt /\ me'.cmd = "none"
          /\ me'.n = me.n /\ me'.err = me.err /\ me'.part = me.part
      BY <1>1, <3>1 DEF Caller
    <3>3. Follows
      BY <1>2, <1>3, <2>1, <3>2, CmdFacts, ConnectingFollows DEF HandshakePCs
    <3> QED
      BY <1>1, <3>1, <3>2, <3>3, NetSame
  <2>5. CASE me' = [me EXCEPT !.pc = "authOK", !.got = NoPkt] /\ UNCHANGED net
    <3>1. me'.n = me.n /\ me'.pc = "authOK" /\ me'.got = NoPkt /\ me'.cmd = me.cmd
          /\ me'.err = me.err /\ me'.part = me.part
      BY <1>1, <2>5 DEF Caller
    <3>2. Follows
      BY <1>2, <1>3, <2>1, <3>1, ConnectingFollows DEF HandshakePCs
    <3> QED
      BY <1>1, <2>5, <3>1, <3>2, NetSame
  <2> QED
    BY <1>5, <2>2, <2>3, <2>4, <2>5
<1>10. CASE HandshakeWriteFails
  BY <1>3, <1>5, <1>10 DEF HandshakeWriteFails
<1> QED
  BY <1>6, <1>7, <1>8, <1>9, <1>10 DEF ConnectStep

\* Steps the calling goroutine takes no part in.
LEMMA UnmovedSent ==
    ASSUME OwnInv, Course(me), UNCHANGED me, Drained, ran' = ran
    PROVE  SentKeeps
BY UnmovedFollows DEF Follows, SentKeeps

LEMMA SessionSent == OwnInv /\ Course(me) /\ SessionAction => SentKeeps
<1> SUFFICES ASSUME OwnInv, Course(me), SessionAction PROVE SentKeeps
  OBVIOUS
<1>1. Follows /\ Drained /\ ran' = ran
  <2>1. UNCHANGED <<net, srvVars>>
    BY DEF SessionAction, Send, SendExecute, WriteFailed, ReadResultOK, ReadHeader,
       ReadPrepared, ReadColumn, SkipEof, SkipRow, NextRow, ReadTextRow, ReadBinaryRow,
       AwaitDone, StopScanning, Drain, CloseStmt, EndTx
  <2> QED
    BY <2>1, SessionFollows, NetSame DEF OwnInv, srvVars
<1>2. me'.n = me.n
  BY SessionTouches DEF Onward, Mine
<1>3. me.pc # "idle"
  BY SessionTouches, CallFacts DEF OwnInv, CallerInv
<1> QED
  BY <1>1, <1>2, <1>3 DEF Follows, SentKeeps

LEMMA WatcherSent == ASSUME OwnInv, Course(me), NEW c \in Conn, WatcherStep(c) PROVE SentKeeps
<1>1. TypeOK /\ UNCHANGED me /\ ran' = ran
  BY DEF OwnInv, WatcherStep, WatcherTakes, WatcherCancels, WatcherEnds, srvVars
<1>2. CASE UNCHANGED net
  BY <1>1, <1>2, NetSame, UnmovedSent
<1>3. CASE WatcherCancels(c)
  <2> DEFINE n == net[c]
             s == <<>>
             x == [n EXCEPT !.out = s]
  <2>1. net' = [net EXCEPT ![c] = x] /\ n \in Socket
    BY <1>1, <1>3 DEF WatcherCancels, CloseNet, TypeOK
  <2> HIDE DEF n, s
  <2>2. x.in = n.in
    BY <2>1 DEF Socket
  <2> HIDE DEF x
  <2> QED
    BY <1>1, <2>1, <2>2, SameInDrained, UnmovedSent DEF n
<1> QED
  BY <1>2, <1>3 DEF WatcherStep, WatcherTakes, WatcherEnds

LEMMA IdleCloseSent == ASSUME OwnInv, Course(me), NEW c \in Conn, IdleClose(c) PROVE SentKeeps
BY DropDrained, UnmovedSent DEF IdleClose, OwnInv, srvVars

LEMMA DeadlineSent == OwnInv /\ Course(me) /\ Deadline => SentKeeps
BY NetSame, UnmovedSent DEF Deadline, ContextDone, OwnInv, srvVars

LEMMA ServerGoneSent ==
    ASSUME OwnInv, Course(me), NEW c \in Conn, ServerGone(c), UNCHANGED srvVars
    PROVE  SentKeeps
<1> DEFINE n == net[c]
           s == <<>>
<1>1. PICK out \in {net[c].out, <<>>} :
           net' = [net EXCEPT ![c] = [@ EXCEPT !.up = "gone", !.in = <<>>, !.out = out]]
  BY DEF ServerGone
<1> DEFINE x == [n EXCEPT !.up = "gone", !.in = s, !.out = out]
<1>2. net' = [net EXCEPT ![c] = x] /\ n \in Socket /\ TypeOK
  BY <1>1 DEF TypeOK, OwnInv
<1>3. s = <<>>
  OBVIOUS
<1> HIDE DEF n, s
<1>4. x.in = <<>>
  BY <1>2, <1>3 DEF Socket
<1> HIDE DEF x
<1> QED
  BY <1>2, <1>4, SameInDrained, UnmovedSent DEF ServerGone, srvVars

LEMMA ServerAuthenticatesSent ==
    ASSUME OwnInv, Course(me), NEW c \in Conn, ServerAuthenticates(c), UNCHANGED srvVars
    PROVE  SentKeeps
<1> DEFINE n == net[c]
           s == Tail(net[c].in)
           f == Head(net[c].in)
<1>1. TypeOK /\ n \in Socket /\ n.in \in Seq(ClientFrame) /\ n.in # <<>>
  BY DEF OwnInv, TypeOK, Socket, ServerAuthenticates
<1>2. PICK r \in AuthReplies(f.cmd, f.arg, conn[c].tls) :
           net' = [net EXCEPT ![c].in = Tail(@),
                     ![c].out = IF conn[c].closed THEN <<>>
                                ELSE AuthFrames(r, Next8(f.seq), f.own),
                     ![c].accepted = @ \/ (r # <<>> /\ r[Len(r)] = "OK")]
  BY Zenon DEF ServerAuthenticates
<1> DEFINE o == IF conn[c].closed THEN <<>> ELSE AuthFrames(r, Next8(f.seq), f.own)
           a == n.accepted \/ (r # <<>> /\ r[Len(r)] = "OK")
           x == [n EXCEPT !.in = s, !.out = o, !.accepted = a]
<1>3. net' = [net EXCEPT ![c] = x]
  BY <1>1, <1>2 DEF TypeOK
<1>4. s = SubSeq(n.in, 1 + 1, Len(n.in))
  <2>1. \A q \in Seq(ClientFrame) : q # <<>> => Tail(q) = SubSeq(q, 1 + 1, Len(q))
    OBVIOUS
  <2> QED
    BY <1>1, <2>1
<1> HIDE DEF s, o, a, f
<1>5. x.in = s
  BY <1>1 DEF Socket
<1> HIDE DEF x
<1>6. Drained
  <2>1. x.in = SubSeq(net[c].in, 1 + 1, Len(net[c].in))
    BY <1>4, <1>5
  <2> HIDE DEF n
  <2> QED
    BY <1>1, <1>3, <2>1, SuffixDrained
<1> QED
  BY <1>6, UnmovedSent DEF ServerAuthenticates, srvVars

\* A call that holds no connection and has sent nothing in this try.
LEMMA FreshCourse ==
    ASSUME NEW m, m.pc \in {"idle", "conn"}, m.cmd = "none", m.err = "none",
           m.got = NoPkt, m.part = NoPkt
    PROVE  Course(m)
BY DEF Course, At, WritesTo, FinishesTo, HandshakePCs, HsCmds, NoPkt

LEMMA ReturnSent ==
    ASSUME TypeOK, Return
    PROVE  me'.n = me.n /\ me'.pc = "idle" /\ Course(me')
<1>1. me' = [NoCaller EXCEPT !.n = me.n]
  BY DEF Return
<1>2. /\ me'.n = me.n /\ me'.pc = "idle" /\ me'.cmd = "none" /\ me'.err = "none"
      /\ me'.got = NoPkt /\ me'.part = NoPkt
  BY <1>1 DEF NoCaller
<1> QED
  BY <1>2, FreshCourse

LEMMA GiveUpConnSent ==
    ASSUME TypeOK, Course(me), me.pc # "idle", NEW e, GiveUpConn(e), Retry(e) => CanSend(me)
    PROVE  /\ me'.n = me.n /\ Course(me')
           /\ me'.pc # "idle" /\ CanSend(me') => me.pc # "idle" /\ CanSend(me)
<1>1. CASE Retry(e)
  <2> DEFINE t == me.tries + 1
  <2>1. me' = [NoCaller EXCEPT !.n = me.n, !.kind = me.kind, !.cred = me.cred,
                               !.tries = t, !.pc = "conn"]
    BY <1>1 DEF GiveUpConn
  <2> HIDE DEF t
  <2>2. /\ me'.n = me.n /\ me'.pc = "conn" /\ me'.cmd = "none" /\ me'.err = "none"
        /\ me'.got = NoPkt /\ me'.part = NoPkt
    BY <2>1 DEF NoCaller
  <2> QED
    BY <1>1, <2>2, FreshCourse
<1>2. CASE ~Retry(e)
  BY <1>2, ReturnSent DEF GiveUpConn
<1> QED
  BY <1>1, <1>2

LEMMA TakeConnSent == OwnInv /\ Course(me) /\ TakeConn => SentKeeps
<1> SUFFICES ASSUME OwnInv, Course(me), TakeConn PROVE SentKeeps
  OBVIOUS
<1>1. TypeOK /\ me.pc = "conn" /\ Drained /\ ran' = ran
  BY NetSame DEF OwnInv, TakeConn, srvVars
<1>2. CASE Return
  BY <1>1, <1>2, ReturnSent DEF SentKeeps
<1>3. ASSUME NEW p \in {"reset", "dial"}, NEW c, me' = [me EXCEPT !.pc = p, !.c = c]
      PROVE  SentKeeps
  <2>1. /\ me'.n = me.n /\ me'.pc = p /\ me'.cmd = me.cmd /\ me'.err = me.err
        /\ me'.got = me.got /\ me'.part = me.part
    BY <1>1, <1>3 DEF TypeOK, Caller
  <2>2. /\ me.cmd \in HsCmds /\ me.err # "ErrBadConn"
        /\ me.got.kind # "ErrBadConn" /\ me.part.kind # "ErrBadConn"
    BY <1>1 DEF Course, At, Winding, FinishesTo
  <2>3. Follows
    BY <2>1, <2>2, ConnectingFollows
  <2> QED
    BY <1>1, <2>1, <2>3 DEF Follows, SentKeeps
<1> QED
  BY <1>2, <1>3 DEF TakeConn

LEMMA GiveUpSent ==
    OwnInv /\ Course(me) /\ (ConnectFailed \/ ResetSession \/ Release) => SentKeeps
<1> SUFFICES ASSUME OwnInv, Course(me), ConnectFailed \/ ResetSession \/ Release
             PROVE  SentKeeps
  OBVIOUS
<1>1. TypeOK /\ me \in Caller /\ me.pc \in {"connectFailed", "reset", "release"} /\ ran' = ran
  BY DEF OwnInv, TypeOK, ConnectFailed, ResetSession, Release, srvVars
<1>2. Drained
  <2>1. me.c \in Conn \cup {NoConn} /\ (me.pc \in {"reset", "release"} => me.c # NoConn)
    BY <1>1, CallFacts DEF Caller, OwnInv, CallerInv
  <2>2. UNCHANGED net \/ (me.c \in Conn /\ Drop(me.c))
    BY <2>1 DEF ConnectFailed, ResetSession, Release
  <2> QED
    BY <1>1, <2>2, NetSame, DropDrained
<1>3. CASE ConnectFailed
  BY <1>1, <1>2, <1>3, ReturnSent DEF ConnectFailed, SentKeeps
<1>4. CASE ResetSession
  <2>1. /\ me.pc = "reset" /\ me.cmd \in HsCmds /\ me.err # "ErrBadConn"
        /\ me.got.kind # "ErrBadConn" /\ me.part.kind # "ErrBadConn"
    BY <1>4 DEF ResetSession, Course, At, Winding, FinishesTo
  <2>2. CASE GiveUpConn("ErrBadConn")
    <3>1. CanSend(me)
      BY <2>1, CmdFacts DEF CanSend
    <3> QED
      BY <1>1, <1>2, <2>1, <2>2, <3>1, GiveUpConnSent DEF SentKeeps
  <2>3. CASE me' = [me EXCEPT !.pc = "watch"]
    <3>1. /\ me'.n = me.n /\ me'.pc = "watch" /\ me'.cmd = me.cmd /\ me'.err = me.err
          /\ me'.got = me.got /\ me'.part = me.part
      BY <1>1, <2>3 DEF Caller
    <3>2. Follows
      BY <2>1, <3>1, ConnectingFollows
    <3> QED
      BY <1>1, <1>2, <2>1, <3>1, <3>2 DEF Follows, SentKeeps
  <2> QED
    BY <1>4, <2>2, <2>3 DEF ResetSession
<1>5. CASE Release
  <2>1. GiveUpConn(me.err) /\ me.pc = "release"
    BY <1>5 DEF Release
  <2>2. Retry(me.err) => CanSend(me)
    BY DEF Retry, CanSend
  <2> QED
    BY <1>1, <1>2, <2>1, <2>2, GiveUpConnSent DEF SentKeeps
<1> QED
  BY <1>3, <1>4, <1>5

\* A statement of the call begins.
LEMMA BeginSent == OwnInv /\ Course(me) /\ (Watch \/ UseStmt) => SentKeeps
<1> SUFFICES ASSUME OwnInv, Course(me), Watch \/ UseStmt PROVE SentKeeps
  OBVIOUS
<1>1. TypeOK /\ me \in Caller /\ me.c \in Conn /\ me.pc \in {"watch", "stmt"} /\ ran' = ran
  BY BetweenFacts DEF OwnInv, TypeOK, Watch, UseStmt, srvVars, BetweenPCs
<1>2. /\ me.pc = "watch" => me.cmd \in HsCmds
      /\ me.pc = "stmt" => me.cmd = "stmt"
      /\ me.err # "ErrBadConn" /\ me.got.kind # "ErrBadConn" /\ me.part.kind # "ErrBadConn"
  BY <1>1 DEF Course, At, Winding, FinishesTo
<1>3. CanSend(me)
  BY <1>1, <1>2, CmdFacts DEF CanSend, Main
<1>4. Drained
  BY <1>1, NetSame, CleanupDrained DEF Watch, WatchCancel, UseStmt, HandContext
<1>5. /\ me'.n = me.n /\ me'.cmd = me.cmd /\ me'.got = me.got /\ me'.part = me.part
      /\ \/ me'.pc = "release"
         \/ me'.pc = "closeStmt"
         \/ me'.pc = "send" /\ me'.err = me.err
         \/ me'.pc = "execute" /\ me.pc = "stmt" /\ me'.err = me.err
  <2>1. \/ me' = [me EXCEPT !.pc = "release", !.err = "ErrBadConn"]
        \/ me' = [me EXCEPT !.pc = "release", !.err = "canceled"]
        \/ me' = [me EXCEPT !.pc = "closeStmt", !.err = "canceled"]
        \/ me' = [me EXCEPT !.pc = "send"]
        \/ me' = [me EXCEPT !.pc = "execute"] /\ me.pc = "stmt"
    BY DEF Watch, WatchCancel, UseStmt, HandContext
  <2>2. ASSUME NEW p, NEW e, me' = [me EXCEPT !.pc = p, !.err = e]
        PROVE  /\ me'.n = me.n /\ me'.cmd = me.cmd /\ me'.got = me.got /\ me'.part = me.part
               /\ me'.pc = p
    BY <1>1, <2>2 DEF Caller
  <2>3. ASSUME NEW p, me' = [me EXCEPT !.pc = p]
        PROVE  /\ me'.n = me.n /\ me'.cmd = me.cmd /\ me'.got = me.got /\ me'.part = me.part
               /\ me'.pc = p /\ me'.err = me.err
    BY <1>1, <2>3 DEF Caller
  <2> QED
    BY <2>1, <2>2, <2>3
<1>6. Course(me')
  BY <1>2, <1>5 DEF Course, At, WritesTo, FinishesTo, HandshakePCs, Winding
<1> QED
  BY <1>1, <1>3, <1>4, <1>5, <1>6 DEF SentKeeps

LEMMA StartCallSent == OnceInv /\ StartCall => Course(me') /\ SentInv'
<1> SUFFICES ASSUME OnceInv, StartCall PROVE Course(me') /\ SentInv'
  OBVIOUS
<1> DEFINE n == me.n + 1
<1>1. TypeOK /\ SentInv /\ ran' = ran /\ me.n \in Nat /\ n \in Call /\ n > me.n
  BY SMTT(60) DEF OnceInv, OwnInv, TypeOK, Caller, CallOrNone, Call, StartCall
<1>2. TypeOK' /\ Drained
  BY <1>1, StartCallKept, NetSame DEF OnceInv, OwnInv, StartCall
<1>3. /\ me'.n = n /\ me'.pc \in {"idle", "conn"} /\ me'.cmd = "none" /\ me'.err = "none"
      /\ me'.got = NoPkt /\ me'.part = NoPkt
  <2>1. PICK kind :
           \/ me' = [NoCaller EXCEPT !.n = me.n + 1]
           \/ me' = [NoCaller EXCEPT !.n = me.n + 1, !.pc = "conn",
                       !.kind = IF kind = "ownQuery" THEN "query" ELSE kind,
                       !.cred = IF kind = "ownQuery" THEN me.n + 1 ELSE NoCall]
    BY DEF StartCall
  <2> DEFINE k == IF kind = "ownQuery" THEN "query" ELSE kind
             d == IF kind = "ownQuery" THEN me.n + 1 ELSE NoCall
  <2>2. \/ me' = [NoCaller EXCEPT !.n = n]
        \/ me' = [NoCaller EXCEPT !.n = n, !.pc = "conn", !.kind = k, !.cred = d]
    BY <2>1
  <2> HIDE DEF n, k, d
  <2> QED
    BY <2>2 DEF NoCaller
<1>4. Course(me')
  BY <1>3, FreshCourse
<1>5. \A k \in Call : Once(k)'
  BY <1>1, <1>2, DrainedOnce DEF SentInv
<1>6. ASSUME NEW k \in Call, k > me.n
      PROVE  Unsent(k)'
  BY <1>1, <1>2, <1>6, DrainedUnsent DEF SentInv
<1>7. ASSUME NEW k \in Call, k > n
      PROVE  k > me.n
  BY <1>1, <1>7 DEF Call
<1>8. ASSUME NEW k \in Call, k = n
      PROVE  Unsent(me.n)'
  <2>1. Unsent(k)' /\ me'.n = k
    BY <1>1, <1>3, <1>6, <1>8
  <2> QED
    BY <2>1 DEF Unsent, Carries
<1> QED
  BY <1>1, <1>3, <1>4, <1>5, <1>6, <1>7, <1>8 DEF SentInv

\* A frame is appended to what one server has received.
Appended(f) ==
    \A d \in Conn : \A i \in DOMAIN net'[d].in :
       \/ i \in DOMAIN net[d].in /\ net'[d].in[i] = net[d].in[i]
       \/ d = me.c /\ i = Len(net[d].in) + 1 /\ net'[d].in[i] = f

LEMMA AppendedOther ==
    ASSUME NEW f, Appended(f), ran' = ran, NEW n, ~(f.last /\ f.cmd \in Main /\ f.own = n)
    PROVE  /\ Unsent(n) => Unsent(n)'
           /\ Once(n) => Once(n)'
<1>1. \A d \in Conn : \A i \in DOMAIN net'[d].in :
         net'[d].in[i].last /\ net'[d].in[i].cmd \in Main /\ net'[d].in[i].own = n
         => i \in DOMAIN net[d].in /\ net'[d].in[i] = net[d].in[i]
  BY DEF Appended
<1>2. \A d \in Conn : Carries(d, n)' => Carries(d, n)
  BY <1>1 DEF Carries
<1>3. Unsent(n) => Unsent(n)'
  BY <1>2 DEF Unsent
<1>4. Once(n) => Once(n)'
  BY <1>1, <1>2 DEF Once
<1> QED
  BY <1>3, <1>4

LEMMA AppendedFirst ==
    ASSUME NEW f, Appended(f), ran' = ran, NEW n, Unsent(n)
    PROVE  Once(n)'
<1>1. \A d \in Conn : \A i \in DOMAIN net'[d].in :
         net'[d].in[i].last /\ net'[d].in[i].cmd \in Main /\ net'[d].in[i].own = n
         => d = me.c /\ i = Len(net[me.c].in) + 1
  BY DEF Appended, Unsent, Carries
<1>2. ran'[n] = 0
  BY DEF Unsent
<1> QED
  BY <1>1, <1>2 DEF Once

LEMMA WriteFrameAppends ==
    OwnInv /\ WriteFrame => Drained \/ Appended(Frame(me.left = 1))
<1> SUFFICES ASSUME OwnInv, WriteFrame PROVE Drained \/ Appended(Frame(me.left = 1))
  OBVIOUS
<1>1. TypeOK /\ me.c \in Conn /\ me.pc = "write"
  BY WriteFacts DEF WriteFrame
<1> DEFINE n == net[me.c]
           f == Frame(me.left = 1)
           s == IF n.up = "gone" THEN n.in ELSE Append(n.in, f)
           x == [n EXCEPT !.in = s]
<1>2. n \in Socket /\ n.in \in Seq(ClientFrame) /\ net' = [net EXCEPT ![me.c] = x]
  BY <1>1 DEF WriteFrame, TypeOK, Socket
<1>3. s = n.in \/ s = Append(n.in, f)
  OBVIOUS
<1>7. f \in ClientFrame
  BY <1>1, WriteFacts DEF Frame, ClientFrame, Connection, Caller, TypeOK
<1> HIDE DEF n, f, s
<1>4. x.in = s
  BY <1>2 DEF Socket
<1> HIDE DEF x
<1>5. CASE s = n.in
  BY <1>1, <1>2, <1>4, <1>5, SameInDrained DEF n
<1>6. CASE s = Append(n.in, f)
  <2>1. \A d \in Conn : net'[d] = IF d = me.c THEN x ELSE net[d]
    BY <1>1, <1>2 DEF TypeOK
  <2>2. ASSUME NEW i \in DOMAIN s
        PROVE  \/ i \in DOMAIN n.in /\ s[i] = n.in[i]
               \/ i = Len(n.in) + 1 /\ s[i] = f
    <3>1. DOMAIN s = 1 .. Len(n.in) + 1 /\ Len(n.in) \in Nat /\ DOMAIN n.in = 1 .. Len(n.in)
      BY <1>2, <1>7, <1>6
    <3>2. \A k \in 1 .. Len(n.in) : s[k] = n.in[k]
      BY <1>2, <1>7, <1>6, <3>1
    <3>3. s[Len(n.in) + 1] = f
      BY <1>2, <1>7, <1>6, <3>1
    <3>4. i \in 1 .. Len(n.in) \/ i = Len(n.in) + 1
      BY <2>2, <3>1
    <3> QED
      BY <3>1, <3>2, <3>3, <3>4
  <2>3. Appended(f)
    BY <1>4, <2>1, <2>2 DEF Appended, n
  <2> QED
    BY <2>3 DEF f
<1> QED
  BY <1>3, <1>5, <1>6

\* The last frame of the statement goes out: from here on the call cannot send
\* it again.
LEMMA WriteFrameSent ==
    OnceInv /\ WriteFrame /\ UNCHANGED <<tls, idle, srvVars>> => Course(me') /\ SentInv'
<1> SUFFICES ASSUME OnceInv, WriteFrame, UNCHANGED <<tls, idle, srvVars>>
             PROVE  Course(me') /\ SentInv'
  OBVIOUS
<1> DEFINE f == Frame(me.left = 1)
           main == me.left = 1 /\ me.cmd \in Main
<1>1. /\ OwnInv /\ Course(me) /\ SentInv /\ me.pc = "write" /\ me \in Caller /\ ran' = ran
      /\ me.n \in Call
      /\ me.then \in HandshakePCs \cup ReplyPCs \cup {"release"}
  BY WriteFacts, CallFacts DEF OnceInv, WriteFrame, srvVars, Caller
<1>2. TypeOK'
  BY <1>1, WriteFrameKept DEF OwnInv
<1>3. /\ me'.pc = IF me.left = 1 THEN me.then ELSE "write"
      /\ me'.then = me.then /\ me'.mode = me.mode /\ me'.n = me.n
      /\ me'.cmd = me.cmd /\ me'.err = me.err /\ me'.got = me.got /\ me'.part = me.part
  <2> DEFINE l == me.left - 1
             p == IF me.left = 1 THEN me.then ELSE "write"
  <2>1. me' = [me EXCEPT !.left = l, !.pc = p]
    BY <1>1 DEF WriteFrame
  <2> HIDE DEF l, p
  <2>2. me'.pc = p
    BY <1>1, <2>1 DEF Caller
  <2>3. /\ me'.then = me.then /\ me'.mode = me.mode /\ me'.n = me.n
        /\ me'.cmd = me.cmd /\ me'.err = me.err /\ me'.got = me.got /\ me'.part = me.part
    BY <1>1, <2>1 DEF Caller
  <2> QED
    BY <2>2, <2>3 DEF p
<1>4. Course(me')
  <2>1. CASE me.left = 1
    BY <1>1, <1>3, <2>1 DEF Course, At, WritesTo, FinishesTo, HandshakePCs, ReplyPCs, Winding
  <2>2. CASE me.left # 1
    BY <1>1, <1>3, <2>2 DEF Course, At, WritesTo, FinishesTo, Winding
  <2> QED
    BY <2>1, <2>2
<1>5. CanSend(me') => CanSend(me)
  BY <1>1, <1>3 DEF CanSend
<1>6. CASE Drained
  BY <1>1, <1>2, <1>3, <1>4, <1>5, <1>6, DrainedSent
<1>7. CASE Appended(f)
  <2>1. f.last = (me.left = 1) /\ f.cmd = me.cmd /\ f.own = me.n
    BY DEF Frame
  <2>2. \A n \in Call : n # me.n \/ ~main => /\ Unsent(n) => Unsent(n)'
                                             /\ Once(n) => Once(n)'
    BY <1>1, <1>7, <2>1, AppendedOther
  <2>3. main => Unsent(me.n) /\ ~CanSend(me')
    <3>1. main => CanSend(me)
      BY <1>1 DEF CanSend
    <3>2. main => me.err # "ErrBadConn"
      BY <1>1 DEF Course, Winding, At, FinishesTo, Main
    <3>3. main => me'.pc \notin {"write", "failed"}
      BY <1>1, <1>3 DEF HandshakePCs, ReplyPCs
    <3> QED
      BY <1>1, <1>3, <3>1, <3>2, <3>3 DEF SentInv, CanSend
  <2>4. \A n \in Call : Once(n)'
    <3>1. ASSUME NEW n \in Call, n = me.n, main
          PROVE  Once(n)'
      BY <1>1, <1>7, <2>3, <3>1, AppendedFirst
    <3> QED
      BY <1>1, <2>2, <3>1 DEF SentInv
  <2>5. \A n \in Call : n > me.n => Unsent(n)'
    BY <1>1, <2>2 DEF SentInv, Call
  <2>6. ASSUME CanSend(me')
        PROVE  Unsent(me.n)'
    <3>1. ASSUME NEW n \in Call, n = me.n
          PROVE  Unsent(me.n)'
      <4>1. Unsent(n)' /\ me'.n = n
        BY <1>1, <1>3, <1>5, <2>2, <2>3, <2>6, <3>1 DEF SentInv
      <4> QED
        BY <4>1 DEF Unsent, Carries
    <3> QED
      BY <1>1, <3>1
  <2> QED
    BY <1>3, <1>4, <2>4, <2>5, <2>6 DEF SentInv
<1> QED
  BY <1>1, <1>4, <1>6, <1>7, WriteFrameAppends

\* What the server takes when it runs a command.
LEMMA ServerTakes ==
    ASSUME OwnInv, NEW c \in Conn, ServerRuns(c)
    PROVE  \E i \in DOMAIN net[c].in :
              /\ i \in Nat \ {0} /\ net[c].in[i].last
              /\ Drained
              /\ \A d \in Conn : d # c => net'[d] = net[d]
              /\ \A j \in DOMAIN net'[c].in :
                    j \in Nat \ {0} /\ i + j \in DOMAIN net[c].in
                    /\ net'[c].in[j] = net[c].in[i + j]
              /\ ran' = IF net[c].in[i].cmd \in Main
                        THEN [ran EXCEPT ![net[c].in[i].own] = @ + 1] ELSE ran
<1> DEFINE n == net[c]
<1>1. TypeOK /\ n \in Socket /\ n.in \in Seq(ClientFrame)
  BY DEF OwnInv, TypeOK, Socket
<1>2. PICK i \in DOMAIN n.in :
         /\ n.in[i].last
         /\ \E o : net' = [net EXCEPT ![c].in = SubSeq(@, i + 1, Len(@)), ![c].out = o]
         /\ ran' = IF n.in[i].cmd \in Main THEN [ran EXCEPT ![n.in[i].own] = @ + 1] ELSE ran
  BY DEF ServerRuns
<1>3. PICK o : net' = [net EXCEPT ![c].in = SubSeq(@, i + 1, Len(@)), ![c].out = o]
  BY <1>2
<1> DEFINE s == SubSeq(n.in, i + 1, Len(n.in))
           x == [n EXCEPT !.in = s, !.out = o]
<1>4. net' = [net EXCEPT ![c] = x]
  BY <1>1, <1>3 DEF TypeOK
<1>10. /\ Len(n.in) \in Nat /\ DOMAIN n.in = 1 .. Len(n.in) /\ i \in 1 .. Len(n.in)
       /\ i \in Nat \ {0}
  <2>1. Len(n.in) \in Nat /\ DOMAIN n.in = 1 .. Len(n.in) /\ i \in 1 .. Len(n.in)
    BY <1>1, <1>2
  <2> QED
    BY <2>1
<1>5. \A j \in DOMAIN s : j \in Nat \ {0} /\ i + j \in DOMAIN n.in /\ s[j] = n.in[i + j]
  <2>1. DOMAIN s = 1 .. Len(n.in) - i
    BY <1>1, <1>10
  <2>2. \A j \in 1 .. Len(n.in) - i : s[j] = n.in[i + 1 + j - 1]
    BY <1>1, <1>10
  <2>3. ASSUME NEW l \in Nat, i \in 1 .. l, NEW j \in 1 .. l - i
        PROVE  j \in Nat \ {0} /\ i + j \in 1 .. l /\ i + 1 + j - 1 = i + j
    BY <1>10, <2>3
  <2> HIDE DEF s, n
  <2> QED
    BY <1>10, <2>1, <2>2, <2>3
<1>6. s = SubSeq(n.in, i + 1, Len(n.in))
  OBVIOUS
<1> HIDE DEF n, s
<1>7. x.in = s
  BY <1>1 DEF Socket
<1> HIDE DEF x
<1>8. Drained
  <2>1. x.in = SubSeq(net[c].in, i + 1, Len(net[c].in)) /\ i \in Nat
    BY <1>6, <1>7, <1>10 DEF n
  <2> QED
    BY <1>1, <1>4, <2>1, SuffixDrained
<1>9. \A d \in Conn : net'[d] = IF d = c THEN x ELSE net[d]
  BY <1>1, <1>4 DEF TypeOK
<1>11. /\ \A d \in Conn : d # c => net'[d] = net[d]
       /\ net'[c] = x
  BY <1>9
<1>12. /\ i \in DOMAIN net[c].in /\ i \in Nat \ {0} /\ net[c].in[i].last
       /\ ran' = IF net[c].in[i].cmd \in Main
                 THEN [ran EXCEPT ![net[c].in[i].own] = @ + 1] ELSE ran
  BY <1>2, <1>10 DEF n
<1>13. \A j \in DOMAIN net'[c].in :
          j \in Nat \ {0} /\ i + j \in DOMAIN net[c].in /\ net'[c].in[j] = net[c].in[i + j]
  BY <1>5, <1>7, <1>11 DEF n
<1> QED
  BY <1>8, <1>11, <1>12, <1>13

\* The server runs the only complete command of a call, which has not run.
LEMMA ServerRunsSent == ASSUME OnceInv, NEW c \in Conn, ServerRuns(c) PROVE Course(me') /\ SentInv'
<1>1. OwnInv /\ Course(me) /\ SentInv /\ UNCHANGED me /\ ran \in [Call -> Nat]
  BY DEF OnceInv, OwnInv, TypeOK, ServerRuns
<1>2. PICK i \in DOMAIN net[c].in :
         /\ i \in Nat \ {0} /\ net[c].in[i].last
         /\ Drained
         /\ \A d \in Conn : d # c => net'[d] = net[d]
         /\ \A j \in DOMAIN net'[c].in :
               j \in Nat \ {0} /\ i + j \in DOMAIN net[c].in
               /\ net'[c].in[j] = net[c].in[i + j]
         /\ ran' = IF net[c].in[i].cmd \in Main
                   THEN [ran EXCEPT ![net[c].in[i].own] = @ + 1] ELSE ran
  BY <1>1, ServerTakes
<1> DEFINE f == net[c].in[i]
<1>3. Course(me') /\ TypeOK'
  BY <1>1, UnmovedFollows, ServerRunsKept DEF Follows, OwnInv
<1>4. CASE ran' = ran
  BY <1>1, <1>2, <1>3, <1>4, DrainedSent
<1>5. ASSUME NEW o \in Call, f.own = o, f.cmd \in Main
      PROVE  Course(me') /\ SentInv'
  <2>1. Carries(c, o)
    BY <1>2, <1>5 DEF Carries
  <2>2. ~Unsent(o) /\ Once(o)
    BY <1>1, <2>1 DEF Unsent, SentInv
  <2>3. ran'[o] = 1 /\ \A n \in Call : n # o => ran'[n] = ran[n]
    <3>1. ran[o] = 0
      BY <1>1, <2>1, <2>2 DEF Once
    <3>2. ran' = [ran EXCEPT ![o] = ran[o] + 1]
      BY <1>2, <1>5
    <3> HIDE DEF f
    <3> QED
      BY <1>1, <3>1, <3>2
  <2>4. ASSUME NEW d \in Conn PROVE ~Carries(d, o)'
    <3>1. ASSUME NEW j \in DOMAIN net'[d].in, net'[d].in[j].last,
                 net'[d].in[j].cmd \in Main, net'[d].in[j].own = o
          PROVE  FALSE
      <4>1. CASE d = c
        <5>1. j \in Nat \ {0} /\ i + j \in DOMAIN net[c].in /\ net'[c].in[j] = net[c].in[i + j]
          BY <1>2, <3>1, <4>1
        <5>2. i + j = i
          BY <1>2, <1>5, <2>2, <3>1, <4>1, <5>1 DEF Once
        <5> QED
          BY <1>2, <5>1, <5>2
      <4>2. CASE d # c
        BY <1>2, <1>5, <2>2, <3>1, <4>2 DEF Once
      <4> QED
        BY <4>1, <4>2
    <3> QED
      BY <3>1 DEF Carries
  <2>5. \A n \in Call : Once(n)'
    <3>1. Once(o)'
      <4>1. ran'[o] <= 1
        BY <2>3
      <4> QED
        BY <2>4, <4>1 DEF Once, Carries
    <3>2. ASSUME NEW n \in Call, n # o PROVE Once(n)'
      BY <1>1, <1>2, <1>3, <2>3, <3>2, DrainedOnce DEF SentInv
    <3> QED
      BY <3>1, <3>2
  <2>6. ASSUME NEW n \in Call, Unsent(n) PROVE Unsent(n)'
    BY <1>2, <2>2, <2>3, <2>6, DrainedUnsent
  <2>7. \A n \in Call : n > me'.n => Unsent(n)'
    BY <1>1, <2>6 DEF SentInv
  <2>8. ASSUME me'.pc # "idle", CanSend(me')
        PROVE  Unsent(me.n)'
    <3>1. me.n \in Call /\ Unsent(me.n)
      BY <1>1, <2>8, CallFacts DEF SentInv, OwnInv, CallerInv, TypeOK, Caller
    <3>2. ASSUME NEW n \in Call, n = me.n
          PROVE  Unsent(me.n)'
      <4>1. Unsent(n)' /\ me'.n = n
        BY <1>1, <2>6, <3>1, <3>2
      <4> QED
        BY <4>1 DEF Unsent, Carries
    <3> QED
      BY <3>1, <3>2
  <2> QED
    BY <1>3, <2>5, <2>7, <2>8 DEF SentInv
<1>6. CASE ~(f.cmd \in Main /\ f.own \in Call)
  BY <1>1, <1>2, <1>4, <1>6
<1> QED
  BY <1>5, <1>6

LEMMA InitOnce == Init => OnceInv
<1> SUFFICES ASSUME Init PROVE OnceInv
  OBVIOUS
<1>1. OwnInv
  BY InitOwn
<1>2. /\ me.pc = "idle" /\ me.cmd = "none" /\ me.err = "none"
      /\ me.got = NoPkt /\ me.part = NoPkt
  BY DEF Init, NoCaller
<1>3. Course(me)
  BY <1>2, FreshCourse
<1>4. \A c \in Conn : net[c].in = <<>>
  BY DEF Init, NewNet
<1>5. \A n \in Call : ran[n] = 0
  BY DEF Init
<1>6. \A n \in Call : Unsent(n) /\ Once(n)
  BY <1>4, <1>5 DEF Unsent, Once, Carries
<1> QED
  BY <1>1, <1>2, <1>3, <1>6 DEF OnceInv, SentInv

LEMMA KeptOnce == OnceInv /\ OwnInv' /\ SentKeeps => OnceInv'
<1> SUFFICES ASSUME OnceInv, OwnInv', SentKeeps PROVE OnceInv'
  OBVIOUS
<1>1. SentInv /\ TypeOK' /\ Drained /\ ran' = ran /\ me'.n = me.n /\ Course(me')
  BY DEF OnceInv, OwnInv, SentKeeps
<1>2. me'.pc # "idle" /\ CanSend(me') => me.pc # "idle" /\ CanSend(me)
  BY DEF SentKeeps
<1>3. SentInv'
  BY <1>1, <1>2, DrainedSent
<1> QED
  BY <1>1, <1>3 DEF OnceInv

LEMMA OnceStep == OnceInv /\ [Next]_vars => OnceInv'
<1> SUFFICES ASSUME OnceInv, [Next]_vars PROVE OnceInv'
  OBVIOUS
<1>1. OwnInv /\ Course(me) /\ TypeOK
  BY DEF OnceInv, OwnInv
<1>2. OwnInv'
  BY <1>1, OwnStep
<1>3. CASE SentKeeps
  BY <1>2, <1>3, KeptOnce
<1>4. CASE Course(me') /\ SentInv'
  BY <1>2, <1>4 DEF OnceInv
<1>5. CASE WireStep /\ UNCHANGED <<tls, idle, srvVars>>
  BY <1>1, <1>3, <1>4, <1>5, WireSent, WriteFrameSent DEF WireStep
<1>6. CASE CallerStep
  <2>1. CASE ConnectStep /\ UNCHANGED <<idle, srvVars>>
    BY <1>1, <1>3, <2>1, ConnectSent
  <2>2. CASE TakeConn \/ ConnectFailed \/ ResetSession \/ Release \/ Watch \/ UseStmt
    BY <1>1, <1>3, <2>2, TakeConnSent, GiveUpSent, BeginSent
  <2>3. CASE SessionAction
    BY <1>1, <1>3, <2>3, SessionSent
  <2> QED
    BY <1>5, <1>6, <2>1, <2>2, <2>3 DEF CallerStep, SessionAction
<1>7. CASE Choice
  BY <1>1, <1>3, <1>4, <1>7, StartCallSent, SessionSent, IdleCloseSent DEF Choice, SessionAction
<1>8. CASE Failure
  BY <1>1, <1>3, <1>8, ConnectSent, ServerGoneSent DEF Failure
<1>9. CASE Fill /\ UNCHANGED <<tls, idle, srvVars>>
  BY <1>1, <1>3, <1>9, WireSent
<1>10. CASE \E c \in Conn : ServerStep(c)
  BY <1>1, <1>3, <1>4, <1>10, ServerAuthenticatesSent, ServerRunsSent DEF ServerStep
<1>11. CASE (\E c \in Conn : WatcherStep(c)) \/ Deadline
  BY <1>1, <1>3, <1>11, WatcherSent, DeadlineSent
<1>12. CASE UNCHANGED vars
  <2>1. UNCHANGED <<net, me, ran>>
    BY <1>12 DEF vars, hsVars, wireVars
  <2> QED
    BY <1>1, <1>3, <2>1, NetSame, UnmovedSent
<1> QED
  BY <1>6, <1>7, <1>8, <1>9, <1>10, <1>11, <1>12 DEF Next

LEMMA SentAtMostOnce == Spec => []OnceInv
BY InitOnce, OnceStep, PTL DEF Spec

\* DB.retry and driver.ErrBadConn (packets.go, connection.go): whatever fails and
\* however often the call is tried, the server runs its statement at most once.
THEOREM RunsOnce == Spec => []AtMostOnce
<1>1. OnceInv => AtMostOnce
  BY DEF OnceInv, SentInv, Once, AtMostOnce
<1> QED
  BY <1>1, SentAtMostOnce, PTL

-----------------------------------------------------------------------------
(* A session belongs to its caller.                                         *)

\* A packet among them says that the server accepts the user.
Accepts(s) == \E i \in DOMAIN s : s[i].kind = "OK"

\* The caller has read such a packet, or the beginning of one.
Told(m) == m.got.kind = "OK" \/ m.part.kind = "OK"

\* The handshake is past the point where TLS is negotiated.
PastTLS(m) ==
    At(m, {"authResult", "authOK", "authKey"}) \/ WritesTo(m, {"authResult", "authOK", "authKey"})

\* How far the login has come on a connection x with the socket n.  Until it is
\* over only packets of the handshake are sent, so that what says OK can only be
\* the answer of a server that accepts; and TLS comes before the credentials.
LoggedIn(x, n) ==
    /\ x.st = "dialled" =>
          /\ \A i \in DOMAIN n.in : n.in[i].cmd \in AuthCmds
          /\ Accepts(x.buf) \/ Accepts(n.out) => n.accepted
    /\ x.st = "ready" => n.accepted /\ (tls => x.tls)

LoginInv(c) ==
    /\ LoggedIn(conn[c], net[c])
    /\ c \in idle => conn[c].user = NoCall

\* What the caller knows of it.
UserInv ==
    /\ me.cred # NoCall => tls
    /\ me.pc \in {"conn", "dial"} => ~Told(me)
    /\ me.c # NoConn /\ St \in {"dialled", "ready"} => conn[me.c].user = me.cred
    /\ me.c # NoConn /\ St = "dialled" =>
          /\ Told(me) => net[me.c].accepted
          /\ PastTLS(me) /\ tls => conn[me.c].tls

SessionInv == OnceInv /\ UserInv /\ \A c \in Conn : LoginInv(c)

\* The login on connection c is where it was.
Settled(c) ==
    /\ conn'[c].st = conn[c].st /\ conn'[c].user = conn[c].user
    /\ conn[c].tls => conn'[c].tls
    /\ net'[c].accepted = net[c].accepted
    /\ conn[c].st = "dialled" /\ (Accepts(conn'[c].buf) \/ Accepts(net'[c].out)) =>
          Accepts(conn[c].buf) \/ Accepts(net[c].out)

\* On every connection; and what the caller learns was there to be read.
Quiet ==
    /\ \A c \in Conn : Settled(c)
    /\ UNCHANGED <<tls, idle>>
    /\ me'.cred = me.cred /\ me'.c = me.c
    /\ me'.pc \in {"conn", "dial"} => ~Told(me')
    /\ me.c # NoConn /\ St = "dialled" =>
          /\ Told(me') => Told(me) \/ Accepts(conn[me.c].buf)
          /\ PastTLS(me') /\ tls => conn'[me.c].tls

LEMMA SettledLogin ==
    ASSUME SessionInv, Drained, NEW c \in Conn, Settled(c), UNCHANGED tls,
           c \in idle' => c \in idle
    PROVE  LoginInv(c)'
<1>1. LoginInv(c)
  BY DEF SessionInv
<1>2. PICK k \in Nat : \A i \in DOMAIN net'[c].in :
                           i + k \in DOMAIN net[c].in /\ net'[c].in[i] = net[c].in[i + k]
  BY DEF Drained
<1>3. LoggedIn(conn[c], net[c])'
  BY <1>1, <1>2 DEF LoginInv, LoggedIn, Settled
<1> QED
  BY <1>1, <1>3 DEF LoginInv, Settled

LEMMA QuietKept ==
    ASSUME SessionInv, Drained, Quiet
    PROVE  UserInv' /\ \A c \in Conn : LoginInv(c)'
<1>1. \A c \in Conn : LoginInv(c)'
  BY SettledLogin DEF Quiet
<1>2. UserInv'
  <2>1. CASE me.c = NoConn
    BY <2>1 DEF SessionInv, UserInv, Quiet
  <2>2. CASE me.c # NoConn
    <3>1. me.c \in Conn
      BY <2>2 DEF SessionInv, OnceInv, OwnInv, TypeOK, Caller
    <3>2. Settled(me.c) /\ LoginInv(me.c)
      BY <3>1 DEF Quiet, SessionInv
    <3>3. St' = St /\ conn'[me'.c].user = conn[me.c].user /\ net'[me'.c].accepted = net[me.c].accepted
          /\ (conn[me.c].tls => conn'[me'.c].tls)
      BY <3>2 DEF Quiet, Settled, St
    <3>4. St = "dialled" => (Told(me') => net[me.c].accepted)
      BY <2>2, <3>2 DEF SessionInv, UserInv, Quiet, LoginInv, LoggedIn, St
    <3> QED
      BY <2>2, <3>3, <3>4 DEF SessionInv, UserInv, Quiet
  <2> QED
    BY <2>1, <2>2
<1> QED
  BY <1>1, <1>2

\* A step that changes connection c at most.
LEMMA OneSettled ==
    ASSUME NEW c \in Conn, Settled(c),
           \A d \in Conn : d # c => conn'[d] = conn[d] /\ net'[d] = net[d]
    PROVE  \A d \in Conn : Settled(d)
BY DEF Settled

\* The steps of a session, and those that read and write, touch a connection
\* and leave its login alone.
LEMMA TouchedSettled ==
    ASSUME Touched, me.c \in Conn, net' \in [Conn -> Socket],
           \A d \in Conn : d # me.c => net'[d] = net[d],
           net'[me.c].accepted = net[me.c].accepted,
           St = "dialled" /\ (Accepts(conn'[me.c].buf) \/ Accepts(net'[me.c].out)) =>
              Accepts(conn[me.c].buf) \/ Accepts(net[me.c].out)
    PROVE  \A d \in Conn : Settled(d)
<1>1. Settled(me.c)
  BY DEF Touched, SameLink, Settled, St
<1> QED
  BY <1>1, OneSettled DEF Touched

LEMMA CleanupSettled ==
    ASSUME TypeOK, NEW c \in Conn, Cleanup(c)
    PROVE  \A d \in Conn : Settled(d)
<1> DEFINE y == conn[c]
           x == [y EXCEPT !.closed = TRUE]
           n == net[c]
           s == <<>>
           m == [n EXCEPT !.out = s]
<1>1. y \in Connection /\ n \in Socket
  BY DEF TypeOK
<1>2. conn' = [conn EXCEPT ![c] = x] /\ net' = [net EXCEPT ![c] = m]
  BY DEF Cleanup, CloseNet
<1>3. ~Accepts(s)
  BY DEF Accepts
<1> HIDE DEF y, n, s
<1>4. /\ x.st = y.st /\ x.user = y.user /\ x.tls = y.tls /\ x.buf = y.buf
      /\ m.accepted = n.accepted /\ m.out = s
  BY <1>1 DEF Connection, Socket
<1> HIDE DEF x, m
<1>5. conn'[c] = x /\ net'[c] = m /\ \A d \in Conn : d # c => conn'[d] = conn[d] /\ net'[d] = net[d]
  BY <1>2 DEF TypeOK
<1>6. Settled(c)
  BY <1>3, <1>4, <1>5 DEF Settled, y, n
<1> QED
  BY <1>5, <1>6, OneSettled

LEMMA SessionSettled == SessionInv /\ SessionAction => Quiet
<1> SUFFICES ASSUME SessionInv, SessionAction PROVE Quiet
  OBVIOUS
<1>1. OwnInv /\ TypeOK
  BY DEF SessionInv, OnceInv, OwnInv
<1>2. Touched /\ Onward /\ me.c \in Conn /\ St = "ready"
  BY <1>1, SessionTouches
<1>3. UNCHANGED <<net, tls, idle>>
  BY DEF SessionAction, Send, SendExecute, WriteFailed, ReadResultOK, ReadHeader,
     ReadPrepared, ReadColumn, SkipEof, SkipRow, NextRow, ReadTextRow, ReadBinaryRow,
     AwaitDone, StopScanning, Drain, CloseStmt, EndTx
<1>4. \A d \in Conn : Settled(d)
  BY <1>1, <1>2, <1>3, TouchedSettled DEF TypeOK
<1>5. me'.cred = me.cred /\ me'.c = me.c /\ me'.pc \notin {"conn", "dial"}
  BY <1>2 DEF Onward, Mine, SessionPCs, BetweenPCs, ReplyPCs
<1> QED
  BY <1>2, <1>3, <1>4, <1>5 DEF Quiet

\* Steps the caller takes no part in.
LEMMA UnmovedQuiet ==
    ASSUME SessionInv, UNCHANGED <<me, tls, idle>>, \A c \in Conn : Settled(c)
    PROVE  Quiet
<1>1. me.c # NoConn /\ St = "dialled" => (PastTLS(me') /\ tls => conn'[me.c].tls)
  <2>1. ASSUME me.c # NoConn, St = "dialled", PastTLS(me'), tls PROVE conn'[me.c].tls
    <3>1. me.c \in Conn
      BY <2>1 DEF SessionInv, OnceInv, OwnInv, TypeOK, Caller
    <3>2. PastTLS(me)
      BY <2>1
    <3> QED
      BY <2>1, <3>1, <3>2 DEF SessionInv, UserInv, Settled
  <2> QED
    BY <2>1
<1>2. me'.pc \in {"conn", "dial"} => ~Told(me')
  BY DEF SessionInv, UserInv
<1>3. Told(me') => Told(me)
  OBVIOUS
<1> QED
  BY <1>1, <1>2, <1>3 DEF Quiet

\* Reading and writing, but for what the server has yet to receive.
LEMMA WireQuiet ==
    SessionInv /\ (ReadFails \/ ReadFrame \/ Finish \/ Fill \/ \E n \in {0, 1} : WriteFails(n))
        /\ UNCHANGED <<tls, idle>>
        => Quiet
<1> SUFFICES ASSUME SessionInv, UNCHANGED <<tls, idle>>,
                    ReadFails \/ ReadFrame \/ Finish \/ Fill \/ \E n \in {0, 1} : WriteFails(n)
             PROVE  Quiet
  OBVIOUS
<1>1. OwnInv /\ TypeOK /\ me \in Caller /\ me.c \in Conn /\ me.pc \notin {"conn", "dial"}
      /\ me.c # NoConn
  <2>1. me.pc \in ReadPCs \cup {"write", "finish"}
    BY Zenon DEF Fill, ReadFails, ReadFrame, Reading, Finish, WriteFails
  <2>2. me.pc \notin {"idle", "conn", "dial", "connectFailed"}
    BY <2>1 DEF ReadPCs
  <2> QED
    BY <2>1, <2>2, CallFacts DEF SessionInv, OnceInv, OwnInv, CallerInv, TypeOK
<1>2. ASSUME \A c \in Conn : Settled(c),
             me'.cred = me.cred, me'.c = me.c, me'.pc \notin {"conn", "dial"},
             Told(me') => Told(me) \/ Accepts(conn[me.c].buf),
             PastTLS(me') => PastTLS(me)
      PROVE  Quiet
  BY <1>1, <1>2 DEF Quiet, Settled, SessionInv, UserInv
<1>3. ASSUME NEW e, Cleanup(me.c),
             \/ me' = [me EXCEPT !.got = e, !.part = NoPkt, !.bad = FALSE]
             \/ me' = [me EXCEPT !.pc = "failed", !.got = e],
             e.kind # "OK"
      PROVE  Quiet
  <2>1. \A c \in Conn : Settled(c)
    BY <1>1, <1>3, CleanupSettled
  <2>2. /\ me'.cred = me.cred /\ me'.c = me.c /\ me'.pc \in {me.pc, "failed"}
        /\ me'.then = me.then /\ me'.got = e /\ me'.part \in {NoPkt, me.part}
    BY <1>1, <1>3, ZenonT(30) DEF Caller
  <2>3. Told(me') => Told(me)
    BY <1>3, <2>2 DEF Told, NoPkt
  <2>4. PastTLS(me') => PastTLS(me)
    BY <2>2 DEF PastTLS, At, WritesTo
  <2> QED
    BY <1>1, <1>2, <2>1, <2>2, <2>3, <2>4
<1>4. ASSUME NEW e, e \in Errors PROVE Err(CanceledOr(me.c, e)).kind # "OK" /\ Err(e).kind # "OK"
  BY <1>4 DEF Err, CanceledOr, Errors
<1>5. CASE ReadFails
  <2> DEFINE p == Err(CanceledOr(me.c, "ErrInvalidConn"))
  <2>1. me' = [me EXCEPT !.got = p, !.part = NoPkt, !.bad = FALSE] /\ Cleanup(me.c)
    BY <1>5 DEF ReadFails, Got
  <2>2. p.kind # "OK"
    BY <1>4 DEF Errors
  <2> HIDE DEF p
  <2> QED
    BY <1>3, <2>1, <2>2
<1>6. CASE \E n \in {0, 1} : WriteFails(n)
  <2>1. PICK n \in {0, 1} : WriteFails(n)
    BY <1>6
  <2> DEFINE e == IF n = 0 THEN "errBadConnNoWrite" ELSE "ErrWrite"
             p == Err(CanceledOr(me.c, e))
  <2>2. me' = [me EXCEPT !.pc = "failed", !.got = p] /\ Cleanup(me.c)
    BY <2>1 DEF WriteFails
  <2>3. p.kind # "OK"
    <3>1. e \in Errors
      BY DEF Errors
    <3> HIDE DEF e
    <3> QED
      BY <1>4, <3>1
  <2> HIDE DEF p
  <2> QED
    BY <1>3, <2>2, <2>3
<1>7. CASE Finish
  <2>1. me.pc = "finish" /\ UNCHANGED net /\ me' = [me EXCEPT !.pc = me.then]
    BY <1>7 DEF Finish
  <2>2. me.then \in BetweenPCs \cup {"connectFailed"}
    BY <1>1, <2>1 DEF OwnInv, CallerInv
  <2>3. me'.cred = me.cred /\ me'.c = me.c /\ me'.pc = me.then /\ me'.got = me.got
        /\ me'.part = me.part
    BY <1>1, <2>1 DEF Caller
  <2>4. Settled(me.c) /\ \A d \in Conn : d # me.c => conn'[d] = conn[d]
    <3> DEFINE y == conn[me.c]
               x == [y EXCEPT !.watching = FALSE, !.watcher = "idle", !.ctx = NoCall]
    <3>1. y \in Connection
      BY <1>1 DEF TypeOK
    <3>2. conn' = conn \/ conn' = [conn EXCEPT ![me.c] = x]
      BY <1>7 DEF Finish
    <3> HIDE DEF y
    <3>3. x.st = y.st /\ x.user = y.user /\ x.tls = y.tls /\ x.buf = y.buf
      BY <3>1 DEF Connection
    <3> HIDE DEF x
    <3>4. conn' = conn \/ (conn'[me.c] = x /\ \A d \in Conn : d # me.c => conn'[d] = conn[d])
      BY <1>1, <3>2 DEF TypeOK
    <3> QED
      BY <2>1, <3>3, <3>4 DEF Settled, y
  <2>5. \A c \in Conn : Settled(c)
    BY <1>1, <2>1, <2>4, OneSettled
  <2>6. (Told(me') => Told(me)) /\ ~PastTLS(me') /\ me'.pc \notin {"conn", "dial"}
    BY <2>2, <2>3 DEF Told, PastTLS, At, WritesTo, BetweenPCs
  <2> QED
    BY <1>2, <2>3, <2>5, <2>6
<1>8. CASE Fill
  <2> DEFINE y == conn[me.c]
             n == net[me.c]
  <2>1. UNCHANGED me
    BY <1>8 DEF Fill
  <2>2. PICK k \in DOMAIN n.out :
           /\ conn' = [conn EXCEPT ![me.c].buf = SubSeq(n.out, 1, k)]
           /\ net' = [net EXCEPT ![me.c].out = SubSeq(@, k + 1, Len(@))]
    BY <1>8 DEF Fill
  <2>3. y \in Connection /\ n \in Socket
    BY <1>1 DEF TypeOK
  <2>4. n.out \in Seq(ServerFrame) /\ k \in 1 .. Len(n.out) /\ Len(n.out) \in Nat
    BY <2>2, <2>3 DEF Socket
  <2> DEFINE s == SubSeq(n.out, 1, k)
             t == SubSeq(n.out, k + 1, Len(n.out))
             x == [y EXCEPT !.buf = s]
             m == [n EXCEPT !.out = t]
  <2>5. (Accepts(s) => Accepts(n.out)) /\ (Accepts(t) => Accepts(n.out))
    <3> DEFINE o == n.out
               l == Len(o)
    <3>1. o \in Seq(ServerFrame) /\ k \in 1 .. l /\ l \in Nat /\ DOMAIN o = 1 .. l
      BY <2>4
    <3>2. s = SubSeq(o, 1, k) /\ t = SubSeq(o, k + 1, l)
      OBVIOUS
    <3>3. k \in Nat /\ k >= 1 /\ k <= l
      BY <3>1
    <3> HIDE DEF o, s, t
    <3>4. DOMAIN s = 1 .. k /\ \A i \in 1 .. k : s[i] = o[i]
      BY <3>1, <3>2, <3>3
    <3>5. CASE k = l
      <4>1. t = <<>>
        BY <3>1, <3>2, <3>3, <3>5
      <4> QED
        BY <3>1, <3>3, <3>4, <3>5, <4>1 DEF Accepts, o
    <3>6. CASE k < l
      <4>1. DOMAIN t = 1 .. l - k /\ \A i \in 1 .. l - k : t[i] = o[k + 1 + i - 1]
        BY <3>1, <3>2, <3>3, <3>6
      <4>2. \A i \in 1 .. l - k : k + 1 + i - 1 \in 1 .. l
        BY <3>1, <3>3, <3>6
      <4>3. \A i \in 1 .. k : i \in 1 .. l
        BY <3>1, <3>3
      <4>4. Accepts(s) => Accepts(o)
        BY <3>1, <3>4, <4>3 DEF Accepts
      <4>5. ASSUME NEW i \in 1 .. l - k, t[i].kind = "OK" PROVE Accepts(o)
        <5>1. o[k + 1 + i - 1].kind = "OK" /\ k + 1 + i - 1 \in DOMAIN o
          BY <3>1, <4>1, <4>2, <4>5
        <5> QED
          BY <5>1, Zenon DEF Accepts
      <4>6. Accepts(t) => Accepts(o)
        BY <4>1, <4>5 DEF Accepts
      <4> QED
        BY <4>4, <4>6 DEF o
    <3>7. k = l \/ k < l
      <4> HIDE DEF l
      <4>1. l \in Nat /\ k \in Nat /\ k <= l
        BY <3>1, <3>3
      <4> QED
        BY <4>1
    <3> QED
      BY <3>5, <3>6, <3>7, Zenon
  <2>6. conn' = [conn EXCEPT ![me.c] = x] /\ net' = [net EXCEPT ![me.c] = m]
    BY <2>2
  <2> HIDE DEF y, n, s, t
  <2>7. /\ x.st = y.st /\ x.user = y.user /\ x.tls = y.tls /\ x.buf = s
        /\ m.accepted = n.accepted /\ m.out = t
    BY <2>3 DEF Connection, Socket
  <2> HIDE DEF x, m
  <2>8. /\ conn'[me.c] = x /\ net'[me.c] = m
        /\ \A d \in Conn : d # me.c => conn'[d] = conn[d] /\ net'[d] = net[d]
    BY <1>1, <2>6 DEF TypeOK
  <2>9. Settled(me.c)
    BY <2>5, <2>7, <2>8 DEF Settled, y, n
  <2>10. \A c \in Conn : Settled(c)
    BY <1>1, <2>8, <2>9, OneSettled, ZenonT(30)
  <2> QED
    BY <1>1, <1>2, <2>1, <2>10
<1>9. CASE ReadFrame
  <2> DEFINE y == conn[me.c]
             f == Head(y.buf)
             t == Tail(y.buf)
             q == Next8(f.seq)
             pkt == IF me.part = NoPkt THEN [kind |-> f.kind, own |-> f.own, arg |-> f.arg]
                    ELSE me.part
             bad == me.bad \/ OutOfSync(f)
             x == [y EXCEPT !.buf = t, !.seq = q]
             z == [y EXCEPT !.buf = t, !.seq = q, !.closed = TRUE]
             n == net[me.c]
             s == <<>>
             m == [n EXCEPT !.out = s]
  <2>1. y \in Connection /\ n \in Socket
    BY <1>1, ZenonT(30) DEF TypeOK
  <2>2. y.buf \in Seq(ServerFrame) /\ y.buf # <<>>
    BY <1>9, <2>1 DEF ReadFrame, Connection, Busy
  <2>3. (Accepts(t) => Accepts(y.buf)) /\ (f.kind = "OK" => Accepts(y.buf)) /\ ~Accepts(s)
    <3> DEFINE b == y.buf
               l == Len(b)
    <3>1. b \in Seq(ServerFrame) /\ l \in Nat /\ l # 0 /\ DOMAIN b = 1 .. l
      BY <2>2
    <3>2. t = Tail(b) /\ f = b[1]
      OBVIOUS
    <3> HIDE DEF b, t, f
    <3>3. DOMAIN t = 1 .. l - 1 /\ \A i \in 1 .. l - 1 : t[i] = b[i + 1]
      BY <3>1, <3>2 DEF l
    <3> HIDE DEF l
    <3>4. \A i \in 1 .. l - 1 : i + 1 \in 1 .. l
      BY <3>1
    <3>5. 1 \in 1 .. l
      BY <3>1
    <3>6. ~Accepts(s)
      BY DEF Accepts
    <3> QED
      BY <3>1, <3>2, <3>3, <3>4, <3>5, <3>6 DEF Accepts, b
  <2>4. \/ conn' = [conn EXCEPT ![me.c] = x]
        \/ conn' = [conn EXCEPT ![me.c] = z]
    BY <1>9, ZenonT(30) DEF ReadFrame
  <2>5. net' = [net EXCEPT ![me.c] = m] \/ UNCHANGED net
    <3>1. net' = [net EXCEPT ![me.c] = CloseNet(@)] \/ UNCHANGED net
      BY <1>9, Zenon DEF ReadFrame
    <3> QED
      BY <3>1 DEF CloseNet
  <2>6. \/ Got(Err("ErrPktSyncMul")) \/ Got(Err("ErrInvalidConn")) \/ Got(Err("ErrPktSync"))
        \/ Got(pkt) \/ me' = [me EXCEPT !.part = pkt, !.bad = bad]
    BY <1>9 DEF ReadFrame
  <2>7. pkt.kind = "OK" => Told(me) \/ Accepts(y.buf)
    <3> HIDE DEF f, y
    <3> QED
      BY <2>3 DEF Told
  <2> HIDE DEF y, f, t, q, pkt, bad, n, s
  <2>8. /\ x.st = y.st /\ x.user = y.user /\ x.tls = y.tls /\ x.buf = t
        /\ z.st = y.st /\ z.user = y.user /\ z.tls = y.tls /\ z.buf = t
        /\ m.accepted = n.accepted /\ m.out = s
    BY <2>1 DEF Connection, Socket
  <2> HIDE DEF x, z, m
  <2>9. /\ conn'[me.c] \in {x, z} /\ net'[me.c] \in {m, n}
        /\ \A d \in Conn : d # me.c => conn'[d] = conn[d] /\ net'[d] = net[d]
    BY <1>1, <2>4, <2>5 DEF TypeOK, n
  <2>10. Settled(me.c)
    BY <2>3, <2>8, <2>9 DEF Settled, y, n
  <2>11. \A c \in Conn : Settled(c)
    BY <1>1, <2>9, <2>10, OneSettled
  <2>12. \/ me' = [me EXCEPT !.part = pkt, !.bad = bad]
         \/ \E p : (p.kind # "OK" \/ p = pkt) /\ me' = [me EXCEPT !.got = p, !.part = NoPkt, !.bad = FALSE]
    BY <2>6, <1>4 DEF Got, Errors
  <2>13. ASSUME NEW p, p.kind # "OK" \/ p = pkt,
                \/ me' = [me EXCEPT !.part = p, !.bad = bad]
                \/ me' = [me EXCEPT !.got = p, !.part = NoPkt, !.bad = FALSE]
         PROVE  Quiet
    <3>1. /\ me'.cred = me.cred /\ me'.c = me.c /\ me'.pc = me.pc /\ me'.then = me.then
          /\ \/ me'.got = me.got /\ me'.part = p
             \/ me'.got = p /\ me'.part = NoPkt
      BY <1>1, <2>13, ZenonT(60) DEF Caller
    <3>2. Told(me') => Told(me) \/ Accepts(conn[me.c].buf)
      BY <2>7, <2>13, <3>1 DEF Told, NoPkt, y
    <3>3. PastTLS(me') => PastTLS(me)
      BY <3>1 DEF PastTLS, At, WritesTo
    <3> QED
      BY <1>1, <1>2, <2>11, <3>1, <3>2, <3>3
  <2> QED
    BY <2>12, <2>13, Zenon
<1> QED
  BY <1>5, <1>6, <1>7, <1>8, <1>9

\* Connect: a failure, or one more packet of the handshake.
LEMMA ConnectFailsQuiet ==
    ASSUME SessionInv, me.c \in Conn, UNCHANGED <<tls, idle>>, NEW e, ConnectFails(e)
    PROVE  Quiet
<1>1. TypeOK /\ me \in Caller
  BY DEF SessionInv, OnceInv, OwnInv, TypeOK
<1>2. \A c \in Conn : Settled(c)
  BY <1>1, CleanupSettled DEF ConnectFails
<1>3. me' = [me EXCEPT !.pc = "finish", !.then = "connectFailed", !.err = e,
                       !.got = NoPkt, !.part = NoPkt, !.bad = FALSE]
  BY DEF ConnectFails
<1>4. /\ me'.cred = me.cred /\ me'.c = me.c /\ me'.pc = "finish"
      /\ me'.got = NoPkt /\ me'.part = NoPkt
  BY <1>1, <1>3 DEF Caller
<1>5. ~Told(me') /\ ~PastTLS(me')
  BY <1>4 DEF Told, NoPkt, PastTLS, At, WritesTo
<1> QED
  BY <1>2, <1>4, <1>5 DEF Quiet

LEMMA ReplyQuiet ==
    ASSUME SessionInv, UNCHANGED <<tls, idle>>, \A c \in Conn : Settled(c),
           NEW cmd, NEW a, NEW then, Reply(cmd, a, then),
           tls /\ then \in {"authResult", "authOK", "authKey"} => conn'[me.c].tls
    PROVE  Quiet
<1>1. me \in Caller
  BY DEF SessionInv, OnceInv, OwnInv, TypeOK
<1> DEFINE l == 1
<1>2. me' = [me EXCEPT !.pc = "write", !.cmd = cmd, !.arg = a, !.left = l, !.then = then,
                       !.got = NoPkt]
  BY DEF Reply
<1> HIDE DEF l
<1>3. /\ me'.cred = me.cred /\ me'.c = me.c /\ me'.pc = "write" /\ me'.then = then
      /\ me'.got = NoPkt /\ me'.part = me.part
  BY <1>1, <1>2 DEF Caller
<1>4. (Told(me') => Told(me)) /\ (PastTLS(me') => then \in {"authResult", "authOK", "authKey"})
  BY <1>3 DEF Told, NoPkt, PastTLS, At, WritesTo
<1> QED
  BY <1>3, <1>4 DEF Quiet

\* A step of the handshake leaves every login where it was, but for the dial,
\* and for the end of it.
LEMMA HandshakeQuiet ==
    ASSUME SessionInv, ConnectStep \/ DialFails, UNCHANGED <<tls, idle>>
    PROVE  \/ Quiet \/ Dial \/ DialFails
           \/ /\ Connected /\ me.pc \in {"authResult", "authOK"} /\ me.got.kind = "OK"
<1>1. /\ OwnInv /\ TypeOK /\ me \in Caller
      /\ me.pc # "dial" => me.c \in Conn /\ me.c # NoConn
      /\ me.pc \in HandshakePCs => St = "dialled"
  <2>1. me.pc \in HandshakePCs \cup {"dial", "failed"}
    BY DEF ConnectStep, Dial, ReadHandshakePacket, SwitchToTLS, HandleAuthResult,
       ReadPublicKey, ReadAuthOK, HandshakeWriteFails, DialFails, HandshakePCs
  <2> QED
    BY <2>1, CallFacts DEF SessionInv, OnceInv, OwnInv, CallerInv, HandshakePCs, TypeOK
<1>2. ASSUME me.pc # "dial", \E e : ConnectFails(e)
      PROVE  Quiet
  BY <1>1, <1>2, ConnectFailsQuiet
<1>3. CASE ReadHandshakePacket
  <2>1. me.pc = "hello"
    BY <1>3 DEF ReadHandshakePacket
  <2>2. \/ \E e : ConnectFails(e)
        \/ /\ conn' = [conn EXCEPT ![me.c] = InitCapabilities(@, net[me.c])]
           /\ net' = [net EXCEPT ![me.c].ssl = FALSE, ![me.c].eof = FALSE]
           /\ \/ \E a : Reply("sslRequest", a, "tls")
              \/ ~tls /\ \E a : Reply("auth", a, "authResult")
    BY <1>3 DEF ReadHandshakePacket
  <2>3. CASE /\ conn' = [conn EXCEPT ![me.c] = InitCapabilities(@, net[me.c])]
             /\ net' = [net EXCEPT ![me.c].ssl = FALSE, ![me.c].eof = FALSE]
             /\ \/ \E a : Reply("sslRequest", a, "tls")
                \/ ~tls /\ \E a : Reply("auth", a, "authResult")
    <3> DEFINE y == conn[me.c]
               n == net[me.c]
               b == n.eof
               x == [y EXCEPT !.deprecateEOF = b]
               m == [n EXCEPT !.ssl = FALSE, !.eof = FALSE]
    <3>1. conn' = [conn EXCEPT ![me.c] = x] /\ net' = [net EXCEPT ![me.c] = m]
          /\ y \in Connection /\ n \in Socket
      BY <1>1, <2>1, <2>3 DEF TypeOK, InitCapabilities
    <3> HIDE DEF y, n, b
    <3>2. /\ x.st = y.st /\ x.user = y.user /\ x.tls = y.tls /\ x.buf = y.buf
          /\ m.accepted = n.accepted /\ m.out = n.out
      BY <3>1 DEF Connection, Socket
    <3> HIDE DEF x, m
    <3>3. /\ conn'[me.c] = x /\ net'[me.c] = m
          /\ \A d \in Conn : d # me.c => conn'[d] = conn[d] /\ net'[d] = net[d]
      BY <1>1, <2>1, <3>1 DEF TypeOK
    <3>4. \A c \in Conn : Settled(c)
      <4>1. Settled(me.c)
        BY <3>2, <3>3 DEF Settled, y, n
      <4> QED
        BY <1>1, <2>1, <3>3, <4>1, OneSettled
    <3> QED
      BY <2>3, <3>4, ReplyQuiet
  <2> QED
    BY <1>2, <2>1, <2>2, <2>3
<1>4. CASE SwitchToTLS
  <2>1. me.pc = "tls"
    BY <1>4 DEF SwitchToTLS
  <2>2. \/ \E e : ConnectFails(e)
        \/ /\ conn' = [conn EXCEPT ![me.c].tls = TRUE] /\ UNCHANGED net
           /\ Reply("auth", me.arg, "authResult")
    BY <1>4 DEF SwitchToTLS
  <2>3. CASE /\ conn' = [conn EXCEPT ![me.c].tls = TRUE] /\ UNCHANGED net
             /\ Reply("auth", me.arg, "authResult")
    <3> DEFINE y == conn[me.c]
               x == [y EXCEPT !.tls = TRUE]
    <3>1. conn' = [conn EXCEPT ![me.c] = x] /\ y \in Connection
      BY <1>1, <2>1, <2>3 DEF TypeOK
    <3> HIDE DEF y
    <3>2. x.st = y.st /\ x.user = y.user /\ x.tls /\ x.buf = y.buf
      BY <3>1 DEF Connection
    <3> HIDE DEF x
    <3>3. conn'[me.c] = x /\ \A d \in Conn : d # me.c => conn'[d] = conn[d]
      BY <1>1, <2>1, <3>1 DEF TypeOK
    <3>4. \A c \in Conn : Settled(c)
      <4>1. Settled(me.c)
        BY <2>3, <3>2, <3>3 DEF Settled, y
      <4> QED
        BY <1>1, <2>1, <2>3, <3>3, <4>1, OneSettled
    <3> QED
      BY <2>3, <3>2, <3>3, <3>4, ReplyQuiet
  <2> QED
    BY <1>2, <2>1, <2>2, <2>3
<1>5. CASE HandleAuthResult \/ ReadPublicKey \/ ReadAuthOK
  <2>1. me.pc \in {"authResult", "authOK", "authKey"}
    BY <1>5 DEF HandleAuthResult, ReadPublicKey, ReadAuthOK
  <2>2. \/ \E e : ConnectFails(e)
        \/ UNCHANGED <<conn, net>> /\ \E cmd, a, then : Reply(cmd, a, then)
        \/ UNCHANGED <<conn, net>> /\ me' = [me EXCEPT !.pc = "authOK", !.got = NoPkt]
        \/ Connected /\ me.pc \in {"authResult", "authOK"} /\ me.got.kind = "OK"
    BY <1>5 DEF HandleAuthResult, ReadPublicKey, ReadAuthOK
  <2>3. me.c \in Conn /\ me.c # NoConn /\ St = "dialled" /\ PastTLS(me)
    BY <1>1, <2>1 DEF HandshakePCs, PastTLS, At
  <2>4. tls => conn[me.c].tls
    BY <2>3 DEF SessionInv, UserInv
  <2>5. ASSUME UNCHANGED <<conn, net>>
        PROVE  \A c \in Conn : Settled(c)
    BY <2>5 DEF Settled
  <2>6. CASE UNCHANGED <<conn, net>> /\ \E cmd, a, then : Reply(cmd, a, then)
    BY <2>4, <2>5, <2>6, ReplyQuiet
  <2>7. CASE UNCHANGED <<conn, net>> /\ me' = [me EXCEPT !.pc = "authOK", !.got = NoPkt]
    <3>1. me'.cred = me.cred /\ me'.c = me.c /\ me'.pc = "authOK" /\ me'.got = NoPkt
          /\ me'.part = me.part
      BY <1>1, <2>7 DEF Caller
    <3>2. Told(me') => Told(me)
      BY <3>1 DEF Told, NoPkt
    <3> QED
      BY <2>4, <2>5, <2>7, <3>1, <3>2 DEF Quiet
  <2> QED
    BY <1>2, <2>1, <2>2, <2>6, <2>7
<1>6. CASE HandshakeWriteFails
  BY <1>2, <1>6 DEF HandshakeWriteFails
<1> QED
  BY <1>3, <1>4, <1>5, <1>6 DEF ConnectStep

\* The greeting of a server that does not know yet who calls.
LEMMA DialSession ==
    ASSUME SessionInv, Dial, UNCHANGED <<tls, idle>>
    PROVE  UserInv' /\ \A c \in Conn : LoginInv(c)'
<1>1. OwnInv /\ TypeOK /\ me \in Caller /\ me.pc = "dial" /\ me.c \in Conn /\ me.c # NoConn
      /\ St = "none" /\ ~Told(me)
  BY CallFacts DEF SessionInv, OnceInv, OwnInv, TypeOK, CallerInv, UserInv, Dial
<1> DEFINE k == me.n
           u == me.cred
           x1 == [NewConn EXCEPT !.st = "dialled", !.watcher = "idle", !.user = u, !.closed = TRUE]
           x2 == [NewConn EXCEPT !.st = "dialled", !.watcher = "idle", !.user = u,
                                 !.watching = TRUE, !.chan = k]
<1>2. PICK cap \in Announced, p \in Plugin \cup {"ERR"} :
         LET hello == IF p = "ERR" THEN Pkt("ERR", "none", 0, me.n)
                      ELSE Pkt("HELLO", p, 0, me.n)
         IN  \/ /\ conn' = [conn EXCEPT ![me.c] = x1] /\ net' = [net EXCEPT ![me.c] = NewNet]
                /\ me' = [me EXCEPT !.pc = "connectFailed", !.err = "canceled"]
             \/ /\ conn' = [conn EXCEPT ![me.c] = x2]
                /\ net' = [net EXCEPT ![me.c] = [NewNet EXCEPT !.out = <<hello>>,
                                                   !.ssl = cap.ssl, !.eof = cap.eof]]
                /\ me' = [me EXCEPT !.pc = "hello"]
  BY DEF Dial, NewConn
<1> DEFINE h == IF p = "ERR" THEN Pkt("ERR", "none", 0, me.n) ELSE Pkt("HELLO", p, 0, me.n)
           o == <<h>>
           s == cap.ssl
           b == cap.eof
           m == [NewNet EXCEPT !.out = o, !.ssl = s, !.eof = b]
<1>3. \/ /\ conn' = [conn EXCEPT ![me.c] = x1] /\ net' = [net EXCEPT ![me.c] = NewNet]
         /\ me' = [me EXCEPT !.pc = "connectFailed", !.err = "canceled"]
      \/ /\ conn' = [conn EXCEPT ![me.c] = x2] /\ net' = [net EXCEPT ![me.c] = m]
         /\ me' = [me EXCEPT !.pc = "hello"]
  BY <1>2
<1>4. ~Accepts(o)
  <2>1. h.kind # "OK"
    BY DEF Pkt
  <2> HIDE DEF h
  <2> QED
    BY <2>1 DEF Accepts
<1> HIDE DEF k, u, h, o, s, b
<1>5. /\ x1.st = "dialled" /\ x1.user = u /\ x1.buf = <<>>
      /\ x2.st = "dialled" /\ x2.user = u /\ x2.buf = <<>>
      /\ NewNet.in = <<>> /\ m.in = <<>> /\ NewNet.out = <<>> /\ m.out = o
  BY DEF NewConn, NewNet
<1> HIDE DEF x1, x2, m
<1>6. /\ conn'[me.c] \in {x1, x2} /\ net'[me.c] \in {NewNet, m}
      /\ \A d \in Conn : d # me.c => conn'[d] = conn[d] /\ net'[d] = net[d]
  BY <1>1, <1>3 DEF TypeOK
<1>7. ASSUME NEW c \in Conn PROVE LoginInv(c)'
  <2>1. CASE c = me.c
    <3>1. c \notin idle'
      BY <1>1, <2>1 DEF OwnInv, LinkInv
    <3>2. ~Accepts(conn'[c].buf) /\ ~Accepts(net'[c].out) /\ net'[c].in = <<>>
          /\ conn'[c].st = "dialled"
      <4>1. ~Accepts(<<>>)
        BY DEF Accepts
      <4> QED
        BY <1>4, <1>5, <1>6, <2>1, <4>1
    <3> QED
      BY <3>1, <3>2 DEF LoginInv, LoggedIn
  <2>2. CASE c # me.c
    BY <1>6, <2>2 DEF SessionInv, LoginInv, LoggedIn
  <2> QED
    BY <2>1, <2>2
<1>8. /\ me'.cred = me.cred /\ me'.c = me.c /\ me'.pc \in {"connectFailed", "hello"}
      /\ me'.got = me.got /\ me'.part = me.part
  BY <1>1, <1>3, ZenonT(60) DEF Caller
<1>9. ~Told(me') /\ ~PastTLS(me')
  BY <1>1, <1>8 DEF Told, PastTLS, At, WritesTo
<1> QED
  BY <1>1, <1>5, <1>6, <1>7, <1>8, <1>9 DEF SessionInv, UserInv, St, u

\* Connect returns the connection once the server has said OK.
LEMMA ConnectedSession ==
    ASSUME SessionInv, Connected, me.pc \in {"authResult", "authOK"}, me.got.kind = "OK",
           UNCHANGED <<tls, idle>>
    PROVE  UserInv' /\ \A c \in Conn : LoginInv(c)'
<1>1. OwnInv /\ TypeOK /\ me \in Caller /\ me.c \in Conn /\ me.c # NoConn /\ St = "dialled"
  BY CallFacts DEF SessionInv, OnceInv, OwnInv, TypeOK, CallerInv, HandshakePCs
<1>2. Told(me) /\ PastTLS(me)
  BY DEF Told, PastTLS, At
<1>3. net[me.c].accepted /\ (tls => conn[me.c].tls) /\ conn[me.c].user = me.cred
  BY <1>1, <1>2 DEF SessionInv, UserInv
<1> DEFINE y == conn[me.c]
           x == [y EXCEPT !.st = "ready"]
<1>4. conn' = [conn EXCEPT ![me.c] = x] /\ UNCHANGED net /\ y \in Connection
  BY <1>1 DEF Connected, TypeOK
<1>5. me' = [me EXCEPT !.pc = "finish", !.then = "watch", !.got = NoPkt,
                        !.cmd = "none", !.arg = "none"]
  BY DEF Connected
<1> HIDE DEF y
<1>6. x.st = "ready" /\ x.user = y.user /\ x.tls = y.tls
  BY <1>4 DEF Connection
<1> HIDE DEF x
<1>7. conn'[me.c] = x /\ \A d \in Conn : d # me.c => conn'[d] = conn[d]
  BY <1>1, <1>4 DEF TypeOK
<1>8. ASSUME NEW c \in Conn PROVE LoginInv(c)'
  <2>1. CASE c = me.c
    BY <1>3, <1>4, <1>6, <1>7, <2>1 DEF SessionInv, LoginInv, LoggedIn, y
  <2>2. CASE c # me.c
    BY <1>4, <1>7, <2>2 DEF SessionInv, LoginInv, LoggedIn
  <2> QED
    BY <2>1, <2>2
<1>9. me'.cred = me.cred /\ me'.c = me.c /\ me'.pc = "finish"
  BY <1>1, <1>5 DEF Caller
<1> QED
  BY <1>3, <1>6, <1>7, <1>8, <1>9 DEF SessionInv, UserInv, St, y

\* While the login lasts the caller sends packets of the handshake only.
LEMMA WriteFrameSession ==
    ASSUME SessionInv, WriteFrame, UNCHANGED <<tls, idle>>
    PROVE  UserInv' /\ \A c \in Conn : LoginInv(c)'
<1>1. me.pc = "write"
  BY DEF WriteFrame
<1>2. /\ OwnInv /\ TypeOK /\ me \in Caller /\ me.c \in Conn /\ me.c # NoConn /\ me.cmd \in Sent
      /\ St = "dialled" => me.then \in HandshakePCs
      /\ me.then \in HandshakePCs \cup ReplyPCs \cup {"release"}
  BY <1>1, WriteFacts, CallFacts DEF SessionInv, OnceInv
<1>3. St = "dialled" => me.cmd \in AuthCmds
  <2>1. St = "dialled" => me.cmd \in HsCmds
    BY <1>1, <1>2 DEF SessionInv, OnceInv, Course, WritesTo
  <2>2. "none" \notin Sent
    BY DEF Sent, AuthCmds, Main
  <2> QED
    BY <1>2, <2>1, <2>2 DEF HsCmds
<1> DEFINE y == conn[me.c]
           n == net[me.c]
           q == Next8(y.seq)
           f == Frame(me.left = 1)
           i == IF n.up = "gone" THEN n.in ELSE Append(n.in, f)
           l == me.left - 1
           p == IF me.left = 1 THEN me.then ELSE "write"
           x == [y EXCEPT !.seq = q]
           m == [n EXCEPT !.in = i]
<1>4. y \in Connection /\ n \in Socket /\ f.cmd = me.cmd
  BY <1>2 DEF TypeOK, Frame
<1>5. St = "dialled" => \A j \in DOMAIN i : i[j].cmd \in AuthCmds
  <2>1. n.in \in Seq(ClientFrame) /\ LoginInv(me.c)
    BY <1>2, <1>4 DEF Socket, SessionInv
  <2>2. St = "dialled" => \A j \in DOMAIN n.in : n.in[j].cmd \in AuthCmds
    BY <2>1 DEF LoginInv, LoggedIn, St
  <2> DEFINE s == n.in
             k == Len(s)
             a == Append(s, f)
  <2>3. s \in Seq(ClientFrame) /\ k \in Nat /\ DOMAIN s = 1 .. k
    BY <2>1
  <2>4. DOMAIN a = 1 .. k + 1 /\ a[k + 1] = f /\ \A j \in 1 .. k : a[j] = s[j]
    <3> HIDE DEF s, f
    <3> QED
      BY <2>3
  <2>5. ASSUME St = "dialled", NEW j \in DOMAIN a PROVE a[j].cmd \in AuthCmds
    <3> HIDE DEF a, k, f
    <3>1. j \in 1 .. k \/ j = k + 1
      BY <2>3, <2>4, <2>5
    <3> QED
      BY <1>3, <1>4, <2>2, <2>3, <2>4, <2>5, <3>1
  <2> HIDE DEF f
  <2> QED
    BY <2>2, <2>5
<1>6. /\ conn' = [conn EXCEPT ![me.c] = x] /\ net' = [net EXCEPT ![me.c] = m]
      /\ me' = [me EXCEPT !.left = l, !.pc = p]
  BY <1>1 DEF WriteFrame
<1>7. p \in {"write", me.then}
  OBVIOUS
<1> HIDE DEF y, n, q, f, i, l, p
<1>8. /\ x.st = y.st /\ x.user = y.user /\ x.tls = y.tls /\ x.buf = y.buf
      /\ m.accepted = n.accepted /\ m.out = n.out /\ m.in = i
  BY <1>4 DEF Connection, Socket
<1> HIDE DEF x, m
<1>9. /\ conn'[me.c] = x /\ net'[me.c] = m
      /\ \A d \in Conn : d # me.c => conn'[d] = conn[d] /\ net'[d] = net[d]
  BY <1>2, <1>6 DEF TypeOK
<1>10. ASSUME NEW c \in Conn PROVE LoginInv(c)'
  <2>1. LoginInv(c)
    BY DEF SessionInv
  <2>2. CASE c = me.c
    BY <1>5, <1>8, <1>9, <2>1, <2>2 DEF LoginInv, LoggedIn, St, y, n
  <2>3. CASE c # me.c
    BY <1>9, <2>1, <2>3 DEF LoginInv, LoggedIn
  <2> QED
    BY <2>2, <2>3
<1>11. /\ me'.cred = me.cred /\ me'.c = me.c /\ me'.pc = p /\ me'.then = me.then
       /\ me'.got = me.got /\ me'.part = me.part
  BY <1>2, <1>6 DEF Caller
<1>12. (Told(me') => Told(me)) /\ (PastTLS(me') => PastTLS(me))
  BY <1>1, <1>7, <1>11 DEF Told, PastTLS, At, WritesTo
<1>13. me'.pc \notin {"conn", "dial"}
  BY <1>2, <1>7, <1>11 DEF HandshakePCs, ReplyPCs
<1>14. St' = St /\ conn'[me'.c].user = conn[me.c].user /\ conn'[me'.c].tls = conn[me.c].tls
       /\ net'[me'.c].accepted = net[me.c].accepted
  BY <1>8, <1>9, <1>11 DEF St, y, n
<1> QED
  BY <1>10, <1>11, <1>12, <1>13, <1>14 DEF SessionInv, UserInv

-----------------------------------------------------------------------------
(* Calls begin and end, and connections change hands.                       *)

\* A caller without a connection.
LEMMA UnboundUser ==
    ASSUME me'.c = NoConn, me'.cred # NoCall => tls', me'.pc = "conn" => ~Told(me'),
           me'.pc # "dial"
    PROVE  UserInv'
BY DEF UserInv

LEMMA SameLogin ==
    ASSUME SessionInv, UNCHANGED <<conn, net, tls, idle>>
    PROVE  \A c \in Conn : LoginInv(c)'
BY DEF SessionInv, LoginInv, LoggedIn

LEMMA ReturnUser == ASSUME Return PROVE UserInv'
<1>1. me' = [NoCaller EXCEPT !.n = me.n]
  BY DEF Return
<1>2. me'.c = NoConn /\ me'.cred = NoCall /\ me'.pc = "idle"
  BY <1>1 DEF NoCaller
<1> QED
  BY <1>2, UnboundUser

LEMMA GiveUpConnUser ==
    ASSUME SessionInv, UNCHANGED tls, NEW e, GiveUpConn(e)
    PROVE  UserInv'
<1>1. CASE Retry(e)
  <2> DEFINE t == me.tries + 1
  <2>1. me' = [NoCaller EXCEPT !.n = me.n, !.kind = me.kind, !.cred = me.cred,
                               !.tries = t, !.pc = "conn"]
    BY <1>1 DEF GiveUpConn
  <2> HIDE DEF t
  <2>2. /\ me'.c = NoConn /\ me'.cred = me.cred /\ me'.pc = "conn"
        /\ me'.got = NoPkt /\ me'.part = NoPkt
    BY <2>1 DEF NoCaller
  <2>3. ~Told(me')
    BY <2>2 DEF Told, NoPkt
  <2> QED
    BY <2>2, <2>3, UnboundUser DEF SessionInv, UserInv
<1>2. CASE ~Retry(e)
  BY <1>2, ReturnUser DEF GiveUpConn
<1> QED
  BY <1>1, <1>2

LEMMA DropLogin ==
    ASSUME SessionInv, NEW c \in Conn, Drop(c), UNCHANGED tls, idle' \subseteq idle \ {c}
    PROVE  \A d \in Conn : LoginInv(d)'
<1>1. TypeOK
  BY DEF SessionInv, OnceInv, OwnInv
<1>2. conn'[c].st = "dropped" /\ \A d \in Conn : d # c => conn'[d] = conn[d]
  BY <1>1, DropEffect
<1>3. \A d \in Conn : d # c => net'[d] = net[d]
  <2>1. \E m : net' = [net EXCEPT ![c] = m]
    BY Zenon DEF Drop
  <2> QED
    BY <1>1, <2>1 DEF TypeOK
<1> QED
  BY <1>2, <1>3 DEF SessionInv, LoginInv, LoggedIn

LEMMA TakeConnSession ==
    ASSUME SessionInv, TakeConn
    PROVE  UserInv' /\ \A c \in Conn : LoginInv(c)'
<1>1. OwnInv /\ TypeOK /\ me \in Caller /\ me.pc = "conn" /\ ~Told(me)
      /\ UNCHANGED <<conn, net, tls>> /\ idle' \subseteq idle
  BY Zenon DEF SessionInv, OnceInv, OwnInv, TypeOK, TakeConn, UserInv
<1>2. \A c \in Conn : LoginInv(c)'
  BY <1>1 DEF SessionInv, LoginInv, LoggedIn
<1>3. CASE Return
  BY <1>2, <1>3, ReturnUser
<1>4. ASSUME NEW c \in idle, me.cred = NoCall, me' = [me EXCEPT !.pc = "reset", !.c = c]
      PROVE  UserInv'
  <2>1. c \in Conn /\ conn[c].user = NoCall /\ conn[c].st = "ready"
    BY <1>1 DEF TypeOK, OwnInv, LinkInv, SessionInv, LoginInv
  <2>2. me'.c = c /\ me'.cred = me.cred /\ me'.pc = "reset"
    BY <1>1, <1>4 DEF Caller
  <2> QED
    BY <1>1, <1>4, <2>1, <2>2 DEF SessionInv, UserInv, St
<1>5. ASSUME NEW c \in Fresh, me' = [me EXCEPT !.pc = "dial", !.c = c]
      PROVE  UserInv'
  <2>1. c \in Conn /\ conn[c].st = "none"
    BY DEF Fresh
  <2>2. me'.c = c /\ me'.cred = me.cred /\ me'.pc = "dial" /\ me'.got = me.got
        /\ me'.part = me.part
    BY <1>1, <1>5 DEF Caller
  <2>3. ~Told(me')
    BY <1>1, <2>2 DEF Told
  <2> QED
    BY <1>1, <2>1, <2>2, <2>3 DEF SessionInv, UserInv, St
<1> QED
  BY <1>2, <1>3, <1>4, <1>5, Zenon DEF TakeConn

LEMMA GiveUpSession ==
    ASSUME SessionInv, ConnectFailed \/ ResetSession \/ Release
    PROVE  UserInv' /\ \A c \in Conn : LoginInv(c)'
<1>1. /\ OwnInv /\ TypeOK /\ me \in Caller /\ UNCHANGED tls
      /\ me.c # NoConn => me.c \in Conn
      /\ me.pc \in {"reset", "release"} => me.c # NoConn /\ St = "ready"
      /\ me.pc \in {"reset", "release", "connectFailed"}
      /\ me.c \in Conn => me.c \notin idle
  <2>1. me.pc \in {"reset", "release", "connectFailed"} /\ UNCHANGED tls
    BY DEF ConnectFailed, ResetSession, Release
  <2> QED
    BY <2>1, CallFacts, Zenon
       DEF SessionInv, OnceInv, OwnInv, TypeOK, Caller, CallerInv, LinkInv, SessionPCs, BetweenPCs
<1>2. CASE ConnectFailed
  <2>1. Return /\ UNCHANGED idle /\ (UNCHANGED <<conn, net>> \/ (me.c # NoConn /\ Drop(me.c)))
    BY <1>2 DEF ConnectFailed
  <2> QED
    BY <1>1, <2>1, ReturnUser, DropLogin, SameLogin
<1>3. CASE ResetSession
  <2>1. UNCHANGED idle /\ me.pc = "reset"
    BY <1>3 DEF ResetSession
  <2>2. CASE Drop(me.c) /\ GiveUpConn("ErrBadConn")
    BY <1>1, <2>1, <2>2, GiveUpConnUser, DropLogin
  <2>3. CASE me' = [me EXCEPT !.pc = "watch"] /\ UNCHANGED <<conn, net>>
    <3>1. me'.cred = me.cred /\ me'.c = me.c /\ me'.pc = "watch"
      BY <1>1, <2>3 DEF Caller
    <3>2. UserInv'
      BY <1>1, <2>1, <2>3, <3>1 DEF SessionInv, UserInv, St
    <3> QED
      BY <1>1, <2>1, <2>3, <3>2, SameLogin
  <2> QED
    BY <1>3, <2>2, <2>3 DEF ResetSession
<1>4. CASE Release
  <2>1. UserInv'
    BY <1>1, <1>4, GiveUpConnUser DEF Release
  <2>2. me.pc = "release"
    BY <1>4 DEF Release
  <2>3. CASE Drop(me.c) /\ UNCHANGED idle
    BY <1>1, <2>1, <2>2, <2>3, DropLogin
  <2>4. CASE me.cred = NoCall /\ idle' = idle \cup {me.c} /\ UNCHANGED <<conn, net>>
    <3>1. conn[me.c].user = NoCall
      BY <1>1, <2>2, <2>4 DEF SessionInv, UserInv
    <3> QED
      BY <1>1, <2>1, <2>4, <3>1 DEF SessionInv, LoginInv, LoggedIn
  <2> QED
    BY <1>4, <2>3, <2>4 DEF Release
<1> QED
  BY <1>2, <1>3, <1>4

LEMMA IdleCloseSession ==
    ASSUME SessionInv, NEW c \in Conn, IdleClose(c)
    PROVE  UserInv' /\ \A d \in Conn : LoginInv(d)'
<1>1. OwnInv /\ TypeOK /\ c # me.c /\ Drop(c) /\ UNCHANGED <<me, tls>> /\ idle' = idle \ {c}
  BY DEF SessionInv, OnceInv, OwnInv, LinkInv, IdleClose
<1>2. \A d \in Conn : LoginInv(d)'
  BY <1>1, DropLogin
<1>3. me.c # NoConn => conn'[me.c] = conn[me.c] /\ net'[me.c] = net[me.c]
  <2>1. \E x, m : conn' = [conn EXCEPT ![c] = x] /\ net' = [net EXCEPT ![c] = m]
    BY <1>1, Zenon DEF Drop
  <2>2. me.c # NoConn => me.c \in Conn
    BY <1>1 DEF TypeOK, Caller
  <2> QED
    BY <1>1, <2>1, <2>2 DEF TypeOK
<1> QED
  BY <1>1, <1>2, <1>3 DEF SessionInv, UserInv, St, Told, PastTLS, At, WritesTo

LEMMA StartCallSession ==
    ASSUME SessionInv, StartCall
    PROVE  UserInv' /\ \A c \in Conn : LoginInv(c)'
<1>1. UNCHANGED <<conn, net, tls, idle>>
  BY DEF StartCall
<1> DEFINE n == me.n + 1
<1>2. \/ me' = [NoCaller EXCEPT !.n = n]
      \/ \E k : me' = [NoCaller EXCEPT !.n = n, !.pc = "conn", !.kind = k, !.cred = NoCall]
      \/ tls /\ \E k : me' = [NoCaller EXCEPT !.n = n, !.pc = "conn", !.kind = k, !.cred = n]
  BY DEF StartCall, Refused
<1> HIDE DEF n
<1>3. /\ me'.c = NoConn /\ (me'.cred # NoCall => tls) /\ me'.pc # "dial"
      /\ me'.got = NoPkt /\ me'.part = NoPkt
  BY <1>2 DEF NoCaller
<1>4. ~Told(me')
  BY <1>3 DEF Told, NoPkt
<1> QED
  BY <1>1, <1>3, <1>4, UnboundUser, SameLogin

\* The rest of a call, the watchers and the clock leave every login where it was.
LEMMA BeginQuiet == ASSUME SessionInv, Watch \/ UseStmt PROVE Quiet
<1>1. /\ OwnInv /\ TypeOK /\ me \in Caller /\ me.c \in Conn /\ St = "ready"
      /\ UNCHANGED <<tls, idle>>
  BY BetweenFacts DEF SessionInv, OnceInv, Watch, UseStmt, BetweenPCs
<1>2. \/ Cleanup(me.c)
      \/ UNCHANGED <<conn, net>>
      \/ UNCHANGED net /\ conn' = [conn EXCEPT ![me.c].watching = TRUE, ![me.c].chan = me.n]
  BY DEF Watch, WatchCancel, UseStmt, HandContext
<1>3. \A c \in Conn : Settled(c)
  <2>1. CASE UNCHANGED net /\ conn' = [conn EXCEPT ![me.c].watching = TRUE, ![me.c].chan = me.n]
    <3> DEFINE y == conn[me.c]
               k == me.n
               x == [y EXCEPT !.watching = TRUE, !.chan = k]
    <3>1. conn' = [conn EXCEPT ![me.c] = x] /\ y \in Connection
      BY <1>1, <2>1 DEF TypeOK
    <3> HIDE DEF y, k
    <3>2. x.st = y.st /\ x.user = y.user /\ x.tls = y.tls /\ x.buf = y.buf
      BY <3>1 DEF Connection
    <3> HIDE DEF x
    <3>3. conn'[me.c] = x /\ \A d \in Conn : d # me.c => conn'[d] = conn[d]
      BY <1>1, <3>1 DEF TypeOK
    <3>4. Settled(me.c)
      BY <2>1, <3>2, <3>3 DEF Settled, y
    <3> QED
      BY <1>1, <2>1, <3>3, <3>4, OneSettled
  <2>2. CASE UNCHANGED <<conn, net>>
    BY <2>2 DEF Settled
  <2> QED
    BY <1>1, <1>2, <2>1, <2>2, CleanupSettled
<1>4. me'.cred = me.cred /\ me'.c = me.c /\ me'.pc \in {"release", "closeStmt", "send", "execute"}
  <2>1. \/ me' = [me EXCEPT !.pc = "release", !.err = "ErrBadConn"]
        \/ me' = [me EXCEPT !.pc = "release", !.err = "canceled"]
        \/ me' = [me EXCEPT !.pc = "closeStmt", !.err = "canceled"]
        \/ me' = [me EXCEPT !.pc = "send"]
        \/ me' = [me EXCEPT !.pc = "execute"]
    BY DEF Watch, WatchCancel, UseStmt, HandContext
  <2> QED
    BY <1>1, <2>1, Zenon DEF Caller
<1> QED
  BY <1>1, <1>3, <1>4 DEF Quiet

LEMMA WatcherQuiet == ASSUME SessionInv, NEW c \in Conn, WatcherStep(c) PROVE Quiet
<1>1. TypeOK /\ UNCHANGED <<me, tls, idle>>
  BY DEF SessionInv, OnceInv, OwnInv, WatcherStep, WatcherTakes, WatcherCancels, WatcherEnds
<1> DEFINE y == conn[c]
           n == net[c]
           k == y.chan
           w == y.ctx
           s == <<>>
           m == [n EXCEPT !.out = s]
           x1 == [y EXCEPT !.watcher = "watching", !.chan = NoCall, !.ctx = k]
           x2 == [y EXCEPT !.watcher = "idle", !.ctx = NoCall, !.canceled = w, !.closed = TRUE]
           x3 == [y EXCEPT !.watcher = "ended", !.ctx = NoCall]
<1>2. \/ conn' = [conn EXCEPT ![c] = x1]
      \/ conn' = [conn EXCEPT ![c] = x2]
      \/ conn' = [conn EXCEPT ![c] = x3]
  <2>1. CASE WatcherTakes(c)
    BY <1>1, <2>1 DEF WatcherTakes, TypeOK
  <2>2. CASE WatcherCancels(c)
    BY <1>1, <2>2 DEF WatcherCancels, TypeOK
  <2>3. CASE WatcherEnds(c)
    BY <1>1, <2>3 DEF WatcherEnds, TypeOK
  <2> QED
    BY <2>1, <2>2, <2>3 DEF WatcherStep
<1>3. net' = [net EXCEPT ![c] = m] \/ UNCHANGED net
  BY DEF WatcherStep, WatcherTakes, WatcherCancels, WatcherEnds, CloseNet
<1>4. y \in Connection /\ n \in Socket
  BY <1>1 DEF TypeOK
<1>5. ~Accepts(s)
  BY DEF Accepts
<1> HIDE DEF y, n, s, k, w
<1>6. /\ x1.st = y.st /\ x1.user = y.user /\ x1.tls = y.tls /\ x1.buf = y.buf
      /\ x2.st = y.st /\ x2.user = y.user /\ x2.tls = y.tls /\ x2.buf = y.buf
      /\ x3.st = y.st /\ x3.user = y.user /\ x3.tls = y.tls /\ x3.buf = y.buf
      /\ m.accepted = n.accepted /\ m.out = s
  BY <1>4 DEF Connection, Socket
<1> HIDE DEF x1, x2, x3, m
<1>7. /\ conn'[c] \in {x1, x2, x3} /\ net'[c] \in {m, n}
      /\ \A d \in Conn : d # c => conn'[d] = conn[d] /\ net'[d] = net[d]
  BY <1>1, <1>2, <1>3 DEF TypeOK, n
<1>8. Settled(c)
  BY <1>5, <1>6, <1>7 DEF Settled, y, n
<1> QED
  BY <1>1, <1>7, <1>8, OneSettled, UnmovedQuiet

-----------------------------------------------------------------------------
(* The server.                                                              *)

LEMMA ServerGoneQuiet ==
    ASSUME SessionInv, NEW c \in Conn, ServerGone(c), UNCHANGED <<tls, idle>>
    PROVE  Quiet
<1> DEFINE n == net[c]
           i == <<>>
<1>1. TypeOK /\ n \in Socket /\ UNCHANGED <<conn, me>>
  BY DEF SessionInv, OnceInv, OwnInv, TypeOK, ServerGone
<1>2. PICK out \in {n.out, <<>>} :
         net' = [net EXCEPT ![c] = [@ EXCEPT !.up = "gone", !.in = i, !.out = out]]
  BY DEF ServerGone
<1> DEFINE m == [n EXCEPT !.up = "gone", !.in = i, !.out = out]
<1>3. net' = [net EXCEPT ![c] = m]
  BY <1>2
<1>4. Accepts(out) => Accepts(n.out)
  BY <1>2 DEF Accepts
<1> HIDE DEF n, i
<1>5. m.accepted = n.accepted /\ m.out = out
  BY <1>1 DEF Socket
<1> HIDE DEF m
<1>6. net'[c] = m /\ \A d \in Conn : d # c => net'[d] = net[d]
  BY <1>1, <1>3 DEF TypeOK
<1>7. Settled(c)
  BY <1>1, <1>4, <1>5, <1>6 DEF Settled, n
<1> QED
  BY <1>1, <1>6, <1>7, OneSettled, UnmovedQuiet

\* Where the caller is does not depend on what the server does, once it has
\* accepted.
LEMMA ServerUser ==
    ASSUME SessionInv, UNCHANGED <<conn, me, tls>>,
           \A c \in Conn : net[c].accepted => net'[c].accepted
    PROVE  UserInv'
<1>1. me.c # NoConn => me.c \in Conn
  BY DEF SessionInv, OnceInv, OwnInv, TypeOK, Caller
<1> QED
  BY <1>1 DEF SessionInv, UserInv, St, Told, PastTLS, At, WritesTo

\* An answer that says OK accepts the user.
LEMMA ServerAuthenticatesSession ==
    ASSUME SessionInv, NEW c \in Conn, ServerAuthenticates(c), UNCHANGED idle
    PROVE  UserInv' /\ \A d \in Conn : LoginInv(d)'
<1> DEFINE n == net[c]
           s == Tail(n.in)
           f == Head(n.in)
           q == Next8(f.seq)
<1>1. TypeOK /\ n \in Socket /\ n.in \in Seq(ClientFrame) /\ n.in # <<>>
      /\ UNCHANGED <<conn, me, tls>>
  BY DEF SessionInv, OnceInv, OwnInv, TypeOK, Socket, ServerAuthenticates
<1>2. f \in ClientFrame
  BY <1>1
<1>3. f.own \in CallOrNone /\ q \in 0 .. SeqMod - 1
  BY <1>2, Next8Range DEF ClientFrame
<1>4. PICK r \in AuthReplies(f.cmd, f.arg, conn[c].tls) :
           net' = [net EXCEPT ![c].in = Tail(@),
                     ![c].out = IF conn[c].closed THEN <<>> ELSE AuthFrames(r, q, f.own),
                     ![c].accepted = @ \/ (r # <<>> /\ r[Len(r)] = "OK")]
           /\ f.cmd \in AuthCmds
  BY Zenon DEF ServerAuthenticates
<1> DEFINE g == AuthFrames(r, q, f.own)
           o == IF conn[c].closed THEN <<>> ELSE g
           a == n.accepted \/ (r # <<>> /\ r[Len(r)] = "OK")
           m == [n EXCEPT !.in = s, !.out = o, !.accepted = a]
<1>5. net' = [net EXCEPT ![c] = m]
  BY <1>1, <1>4 DEF TypeOK
<1>6. Accepts(o) => a
  <2>1. AuthAnswer(r)
    BY <1>4, AuthReplyShape
  <2>2. \A k \in DOMAIN g : g[k].kind = "OK" => r # <<>> /\ r[Len(r)] = "OK"
    BY <1>3, <2>1, AuthFramesType
  <2>3. ~Accepts(<<>>)
    BY DEF Accepts
  <2> HIDE DEF g
  <2>4. Accepts(g) => r # <<>> /\ r[Len(r)] = "OK"
    BY <2>2 DEF Accepts
  <2> QED
    BY <2>3, <2>4
<1>7. \A j \in DOMAIN s : j + 1 \in DOMAIN n.in /\ s[j] = n.in[j + 1]
  <2> DEFINE t == n.in
             l == Len(t)
  <2>1. t \in Seq(ClientFrame) /\ l \in Nat /\ l # 0 /\ DOMAIN t = 1 .. l
    BY <1>1
  <2>2. DOMAIN s = 1 .. l - 1 /\ \A j \in 1 .. l - 1 : s[j] = t[j + 1]
    <3> HIDE DEF t
    <3> QED
      BY <2>1 DEF t
  <2>3. \A j \in 1 .. l - 1 : j + 1 \in 1 .. l
    <3> HIDE DEF l
    <3> QED
      BY <2>1
  <2> QED
    BY <2>1, <2>2, <2>3
<1> HIDE DEF n, s, f, q, g, o
<1>8. (n.accepted => a) /\ a \in BOOLEAN
  BY <1>1 DEF Socket
<1> HIDE DEF a
<1>9. m.in = s /\ m.out = o /\ m.accepted = a
  BY <1>1 DEF Socket
<1> HIDE DEF m
<1>10. net'[c] = m /\ \A d \in Conn : d # c => net'[d] = net[d]
  BY <1>1, <1>5 DEF TypeOK
<1>11. LoginInv(c)'
  <2>1. LoginInv(c)
    BY DEF SessionInv
  <2>2. conn[c].st = "dialled" => \A j \in DOMAIN s : s[j].cmd \in AuthCmds
    BY <1>7, <2>1 DEF LoginInv, LoggedIn, n
  <2> QED
    BY <1>1, <1>6, <1>8, <1>9, <1>10, <2>1, <2>2 DEF LoginInv, LoggedIn, n
<1>12. \A d \in Conn : d # c => LoginInv(d)'
  BY <1>1, <1>10 DEF SessionInv, LoginInv, LoggedIn
<1>13. \A d \in Conn : net[d].accepted => net'[d].accepted
  BY <1>8, <1>9, <1>10 DEF n
<1> QED
  BY <1>1, <1>11, <1>12, <1>13, ServerUser

\* A command of the session is none of the handshake's.
LEMMA ServerRunsSession ==
    ASSUME SessionInv, NEW c \in Conn, ServerRuns(c)
    PROVE  UserInv' /\ \A d \in Conn : LoginInv(d)'
<1> DEFINE n == net[c]
<1>1. TypeOK /\ n \in Socket /\ UNCHANGED <<conn, me, tls, idle>>
  BY DEF SessionInv, OnceInv, OwnInv, TypeOK, ServerRuns
<1>2. PICK i \in DOMAIN n.in : n.in[i].cmd \notin AuthCmds
  BY DEF ServerRuns
<1>3. conn[c].st # "dialled"
  BY <1>2 DEF SessionInv, LoginInv, LoggedIn
<1>4. \E s, o : net' = [net EXCEPT ![c].in = s, ![c].out = o]
  BY DEF ServerRuns
<1>5. PICK s, o : net' = [net EXCEPT ![c] = [n EXCEPT !.in = s, !.out = o]]
  BY <1>1, <1>4 DEF TypeOK
<1> DEFINE m == [n EXCEPT !.in = s, !.out = o]
<1> HIDE DEF n
<1>6. m.accepted = n.accepted
  BY <1>1 DEF Socket
<1>7. net' = [net EXCEPT ![c] = m]
  BY <1>5
<1> HIDE DEF m
<1>8. net'[c] = m /\ \A d \in Conn : d # c => net'[d] = net[d]
  BY <1>1, <1>7 DEF TypeOK
<1>9. \A d \in Conn : LoginInv(d)'
  BY <1>1, <1>3, <1>6, <1>8 DEF SessionInv, LoginInv, LoggedIn, n
<1>10. \A d \in Conn : net'[d].accepted = net[d].accepted
  BY <1>6, <1>8 DEF n
<1> QED
  BY <1>1, <1>9, <1>10, ServerUser

-----------------------------------------------------------------------------
LEMMA InitSession == Init => SessionInv
<1> SUFFICES ASSUME Init PROVE SessionInv
  OBVIOUS
<1>1. OnceInv
  BY InitOnce
<1>2. me = NoCaller /\ idle = {} /\ \A c \in Conn : conn[c] = NewConn
  BY DEF Init
<1>3. UserInv
  BY <1>2 DEF UserInv, NoCaller
<1>4. \A c \in Conn : LoginInv(c)
  <2>1. NewConn.st = "none"
    BY DEF NewConn
  <2>2. \A c \in Conn : conn[c].st = "none" /\ c \notin idle
    BY <1>2, <2>1
  <2> QED
    BY <2>2 DEF LoginInv, LoggedIn
<1> QED
  BY <1>1, <1>3, <1>4 DEF SessionInv

LEMMA SessionStays == SessionInv /\ [Next]_vars => SessionInv'
<1> SUFFICES ASSUME SessionInv, [Next]_vars PROVE SessionInv'
  OBVIOUS
<1>1. OnceInv /\ OwnInv /\ Course(me) /\ TypeOK
  BY DEF SessionInv, OnceInv, OwnInv
<1>2. OnceInv'
  BY <1>1, OnceStep
<1>3. CASE Quiet /\ SentKeeps
  BY <1>2, <1>3, QuietKept DEF SentKeeps, SessionInv
<1>4. CASE UserInv' /\ \A c \in Conn : LoginInv(c)'
  BY <1>2, <1>4 DEF SessionInv
<1>5. CASE WireStep /\ UNCHANGED <<tls, idle, srvVars>>
  BY <1>1, <1>3, <1>4, <1>5, WireSent, WireQuiet, WriteFrameSession DEF WireStep
<1>6. ASSUME ConnectStep \/ DialFails, UNCHANGED <<idle, srvVars>>
      PROVE  SessionInv'
  <2>1. UNCHANGED tls
    BY <1>6, Zenon DEF ConnectStep, Dial, DialFails, ReadHandshakePacket, SwitchToTLS,
       HandleAuthResult, ReadPublicKey, ReadAuthOK, HandshakeWriteFails
  <2>2. SentKeeps
    BY <1>1, <1>6, ConnectSent
  <2>3. CASE DialFails
    <3>1. /\ me' = [me EXCEPT !.pc = "connectFailed", !.c = NoConn, !.err = "ErrSetup"]
          /\ UNCHANGED <<conn, net>>
      BY <2>3 DEF DialFails
    <3>2. me'.c = NoConn /\ me'.cred = me.cred /\ me'.pc = "connectFailed"
      BY <1>1, <3>1 DEF TypeOK, Caller
    <3>3. UserInv'
      BY <2>1, <3>2, UnboundUser DEF SessionInv, UserInv
    <3> QED
      BY <1>4, <1>6, <2>1, <3>1, <3>3, SameLogin
  <2> QED
    BY <1>3, <1>4, <1>6, <2>1, <2>2, <2>3, HandshakeQuiet, DialSession, ConnectedSession
<1>7. CASE CallerStep
  <2>1. CASE ConnectStep /\ UNCHANGED <<idle, srvVars>>
    BY <1>6, <2>1
  <2>2. CASE TakeConn \/ ConnectFailed \/ ResetSession \/ Release
    BY <1>4, <2>2, TakeConnSession, GiveUpSession
  <2>3. CASE Watch \/ UseStmt
    BY <1>1, <1>3, <2>3, BeginSent, BeginQuiet
  <2>4. CASE SessionAction
    BY <1>1, <1>3, <2>4, SessionSent, SessionSettled
  <2> QED
    BY <1>5, <1>7, <2>1, <2>2, <2>3, <2>4 DEF CallerStep, SessionAction
<1>8. CASE Choice
  <2>1. CASE StartCall
    BY <1>4, <2>1, StartCallSession
  <2>2. CASE StopScanning
    BY <1>1, <1>3, <2>2, SessionSent, SessionSettled DEF SessionAction
  <2>3. CASE \E c \in Conn : IdleClose(c)
    BY <1>4, <2>3, IdleCloseSession
  <2> QED
    BY <1>8, <2>1, <2>2, <2>3 DEF Choice
<1>9. CASE Failure
  BY <1>1, <1>3, <1>6, <1>9, ServerGoneSent, ServerGoneQuiet DEF Failure
<1>10. CASE Fill /\ UNCHANGED <<tls, idle, srvVars>>
  BY <1>1, <1>3, <1>10, WireSent, WireQuiet
<1>11. CASE \E c \in Conn : ServerStep(c)
  BY <1>4, <1>11, ServerAuthenticatesSession, ServerRunsSession DEF ServerStep
<1>12. CASE \E c \in Conn : WatcherStep(c)
  BY <1>1, <1>3, <1>12, WatcherSent, WatcherQuiet
<1>13. CASE Deadline \/ UNCHANGED vars
  <2>1. UNCHANGED <<conn, net, me, tls, idle>>
    BY <1>13 DEF Deadline, ContextDone, vars, hsVars, wireVars
  <2>2. UserInv'
    BY <2>1, ServerUser
  <2> QED
    BY <1>4, <2>1, <2>2, SameLogin
<1> QED
  BY <1>7, <1>8, <1>9, <1>10, <1>11, <1>12, <1>13 DEF Next

LEMMA SessionsKept == Spec => []SessionInv
BY InitSession, SessionStays, PTL DEF Spec

\* connector.Connect, openAs and the pool (connector.go, client.go): a connection
\* is used once the server has accepted its user, only by calls with the
\* credential it was dialled with, and a caller's token goes over TLS.
THEOREM SessionsBelong == Spec => []SessionIsCallers
<1>1. SessionInv => SessionIsCallers
  <2> SUFFICES ASSUME SessionInv, me.c # NoConn, St = "ready"
               PROVE  /\ net[me.c].accepted
                      /\ conn[me.c].user = me.cred
                      /\ me.cred # NoCall => conn[me.c].tls
    BY DEF SessionIsCallers, St
  <2>1. me.c \in Conn
    BY DEF SessionInv, OnceInv, OwnInv, TypeOK, Caller
  <2>2. net[me.c].accepted /\ (tls => conn[me.c].tls)
    BY <2>1 DEF SessionInv, LoginInv, LoggedIn, St
  <2>3. conn[me.c].user = me.cred /\ (me.cred # NoCall => tls)
    BY DEF SessionInv, UserInv
  <2> QED
    BY <2>2, <2>3
<1> QED
  BY <1>1, SessionsKept, PTL
=============================================================================
