------------------------------- MODULE Driver --------------------------------
(***************************************************************************)
(* Calls of the StarRocks client through database/sql and the wire driver: *)
(* Exec, Query with its rows, Ping, prepared statements and transactions,  *)
(* on connections taken from the pool, or on one of its own when the query *)
(* carries a caller's credential.  database/sql is modelled from how the   *)
(* driver relies on it: the retry on driver.ErrBadConn, ResetSession and   *)
(* IsValid around the pool, and rows closed when their context is done.    *)
(***************************************************************************)
EXTENDS Handshake, FiniteSets

CONSTANTS
    Kinds,      \* kinds of call made first, second, ...
    Replies,    \* replies to a statement, with EOF packets and without (TRUE):
                \* sequences of frames [kind, size]
    Columns,    \* columns of a result
    MaxFrames   \* frames of the longest command

PacketKind == {"HELLO", "ERR", "SWITCH", "OK", "FAST", "FULL", "KEY", "OK+", "HDR", "COL",
               "EOF", "ROW", "CONT", "END", "END+"}

ReplyFrame == [kind : PacketKind, size : Size]

-----------------------------------------------------------------------------
(* The grammar of a reply                                                   *)

HeadKinds == {"OK", "OK+", "HDR", "ERR"}
RowKinds == {"ROW", "END", "END+", "ERR"}

\* After position i of s come n column definitions, an EOF packet if eof, rows.
Metadata(s, i, n, eof) ==
    /\ \A j \in 1 .. n : i + j <= Len(s) => s[i + j].kind = "COL"
    /\ eof => /\ i + n + 1 <= Len(s) => s[i + n + 1].kind = "EOF"
              /\ i + n + 2 <= Len(s) => s[i + n + 2].kind \in RowKinds
    /\ ~eof => (i + n + 1 <= Len(s) => s[i + n + 1].kind \in RowKinds)

\* What comes in s after position i, where a frame of that kind and size was.
Continues(s, i, kind, size, eof) ==
    /\ kind \in {"OK", "ERR", "END"} => Len(s) = i
    /\ kind \in {"OK+", "END+"} => (i + 1 <= Len(s) => s[i + 1].kind \in HeadKinds)
    /\ kind = "HDR" => Metadata(s, i, Columns, eof)
    /\ kind \in {"ROW", "CONT"} /\ i + 1 <= Len(s) =>
          IF size = "full" THEN s[i + 1].kind = "CONT" ELSE s[i + 1].kind \in RowKinds

\* Only a row fills a frame, and only its continuation may be empty.
Fits(f) == f.size = "full" => f.kind \in {"ROW", "CONT"}
Empty(f) == f.size = "zero" => f.kind = "CONT"

WellFormed(s, eof) ==
    \A i \in DOMAIN s : Fits(s[i]) /\ Empty(s[i]) /\ Continues(s, i, s[i].kind, s[i].size, eof)

ASSUME DriverAssumption ==
    /\ Kinds \in [Call -> SUBSET {"exec", "query", "ownQuery", "ping",
                                  "stmtExec", "stmtQuery", "tx"}]
    /\ Replies \in [BOOLEAN -> SUBSET Seq(ReplyFrame)]
    /\ Columns \in Nat \ {0}
    /\ MaxFrames \in Nat \ {0}

\* The server keeps to the protocol, and the number of a command's last frame
\* has not wrapped (maxAllowedPacket is far below 256 frames).
ASSUME ProtocolAssumption ==
    /\ \A d \in BOOLEAN : \A r \in Replies[d] :
          WellFormed(r, ~d) /\ (1 <= Len(r) => r[1].kind \in HeadKinds)
    /\ MaxFrames < SeqMod

VARIABLES
    idle,   \* connections in the pool
    ran,    \* how often the server ran the statement of each call
    served  \* rows of the first result set it sent for the last one

vars == <<hsVars, idle, ran, served>>
srvVars == <<ran, served>>

Stmt == {"stmtExec", "stmtQuery"}

NoCaller == [n |-> NoCall, kind |-> "none", cred |-> NoCall, pc |-> "idle", c |-> NoConn,
             tries |-> 0, cmd |-> "none", arg |-> "none", left |-> 0, then |-> "none",
             mode |-> "none", rsDone |-> FALSE, mc |-> FALSE, err |-> "none", rows |-> 0,
             got |-> NoPkt, part |-> NoPkt, bad |-> FALSE]

Init ==
    /\ conn = [c \in Conn |-> NewConn]
    /\ net = [c \in Conn |-> NewNet]
    /\ me = NoCaller
    /\ done = {}
    /\ tls \in BOOLEAN
    /\ idle = {}
    /\ ran = [n \in Call |-> 0]
    /\ served = 0

-----------------------------------------------------------------------------
(* The client and database/sql                                              *)

\* A caller's token is presented over TLS only.
NeverRefused(kind) == FALSE
Refused(kind) == kind = "ownQuery" /\ ~tls

\* Client.Exec, Query or Ping; an ownQuery carries its caller's credential.
StartCall ==
    /\ me.pc = "idle" /\ me.n < MaxCalls
    /\ \E kind \in Kinds[me.n + 1] :
         LET own == kind = "ownQuery"
         IN  \/ /\ Refused(kind)
                /\ me' = [NoCaller EXCEPT !.n = me.n + 1]
                /\ done' = done \cup {me.n + 1}
             \/ /\ ~Refused(kind)
                /\ me' = [NoCaller EXCEPT !.n = me.n + 1, !.pc = "conn",
                             !.kind = IF own THEN "query" ELSE kind,
                             !.cred = IF own THEN me.n + 1 ELSE NoCall]
                /\ UNCHANGED done
    /\ served' = 0
    /\ UNCHANGED <<conn, net, tls, idle, ran>>

\* The call returns; its deferred cancel ends the context.
Return ==
    /\ done' = done \cup {me.n}
    /\ me' = [NoCaller EXCEPT !.n = me.n]

Fresh == {c \in Conn : conn[c].st = "none"}

\* DB.conn
TakeConn ==
    /\ me.pc = "conn"
    /\ \/ /\ me.n \in done
          /\ Return
          /\ UNCHANGED idle
       \/ /\ me.n \notin done /\ me.cred = NoCall /\ me.tries < 2
          /\ \E c \in idle :
               /\ idle' = idle \ {c}
               /\ me' = [me EXCEPT !.pc = "reset", !.c = c]
          /\ UNCHANGED done
       \/ /\ me.n \notin done
          /\ me.cred # NoCall \/ me.tries = 2 \/ idle = {}
          /\ \E c \in Fresh :
               /\ \A d \in Fresh : c <= d
               /\ me' = [me EXCEPT !.pc = "dial", !.c = c]
          /\ UNCHANGED <<idle, done>>
       \/ /\ me.n \notin done
          /\ me.cred # NoCall \/ me.tries = 2 \/ idle = {}
          /\ Fresh = {}                        \* bound: no more dials succeed
          /\ Return
          /\ UNCHANGED idle
    /\ UNCHANGED <<conn, net, tls, srvVars>>

\* A Connect that failed hands no connection out.
ConnectFailed ==
    /\ me.pc = "connectFailed"
    /\ Return
    /\ IF me.c # NoConn /\ conn[me.c].closed THEN Drop(me.c) ELSE UNCHANGED <<conn, net>>
    /\ UNCHANGED <<tls, idle, srvVars>>

\* DB.retry: twice on any connection, then once more on a new one.
Retry(e) == e = "ErrBadConn" /\ me.tries < 2 /\ me.mode # "endTx"

GiveUpConn(e) ==
    IF Retry(e)
    THEN /\ me' = [NoCaller EXCEPT !.n = me.n, !.kind = me.kind, !.cred = me.cred,
                                   !.tries = me.tries + 1, !.pc = "conn"]
         /\ UNCHANGED done
    ELSE Return

\* connCheck may find bytes nobody expects, or the end of the stream.
ConnCheckFails(c) == net[c].out # <<>> \/ net[c].up = "gone"

\* Bytes may also still be on their way when it looks.
ConnCheckPasses(c) == net[c].up = "up"

ResetSession ==
    /\ me.pc = "reset"
    /\ \/ /\ conn[me.c].closed \/ Busy(me.c) \/ ConnCheckFails(me.c)
          /\ Drop(me.c)
          /\ GiveUpConn("ErrBadConn")
       \/ /\ ~conn[me.c].closed /\ ~Busy(me.c) /\ ConnCheckPasses(me.c)
          /\ me' = [me EXCEPT !.pc = "watch"]
          /\ UNCHANGED <<conn, net, done>>
    /\ UNCHANGED <<tls, idle, srvVars>>

\* IsValid
Valid(c) == ~conn[c].closed /\ ~Busy(c)

\* putConn; a caller's own pool is closed with the call.
Release ==
    /\ me.pc = "release"
    /\ IF me.cred # NoCall \/ me.err = "ErrBadConn" \/ ~Valid(me.c)
       THEN Drop(me.c) /\ UNCHANGED idle
       ELSE idle' = idle \cup {me.c} /\ UNCHANGED <<conn, net>>
    /\ GiveUpConn(me.err)
    /\ UNCHANGED <<tls, srvVars>>

\* The pool's cleaner closes a connection idle for too long.
IdleClose(c) ==
    /\ c \in idle
    /\ Drop(c)
    /\ idle' = idle \ {c}
    /\ UNCHANGED <<me, done, tls, srvVars>>

-----------------------------------------------------------------------------
(* Commands                                                                 *)

\* The operation ends with e: the deferred finish, then the statement's Close
\* if there is one, then the connection goes back.  The first error is kept.
End(e) ==
    me' = [me EXCEPT !.pc = "finish", !.got = NoPkt, !.part = NoPkt, !.bad = FALSE,
                     !.err = IF me.err = "none" THEN e ELSE @,
                     !.then = IF me.kind \in Stmt /\ me.cmd \in {"stmt", "execute", "longData"}
                              THEN "closeStmt" ELSE "release"]

\* markBadConn; Prepare answers every failed write with ErrBadConn.
MarkBadConn(cmd, e) ==
    IF e = "errBadConnNoWrite" \/ cmd = "prepare" THEN "ErrBadConn" ELSE e

\* The beginning of ExecContext, QueryContext, Ping, BeginTx, PrepareContext.
Watch ==
    /\ me.pc = "watch"
    /\ IF me.kind \in {"ping", "tx"} /\ conn[me.c].closed
       THEN /\ me' = [me EXCEPT !.pc = "release", !.err = "ErrBadConn"]
            /\ UNCHANGED <<conn, net>>
       ELSE WatchCancel("send", "release")
    /\ UNCHANGED <<done, tls, idle, srvVars>>

\* The command a call writes next with writeCommandPacket and its kin.
Command == CASE me.mode = "endTx" -> {"endTx"}
             [] me.cmd = "isolation" -> {"begin"}
             [] me.cmd = "none" /\ me.kind \in Stmt -> {"prepare"}
             [] me.cmd = "none" /\ me.kind = "ping" -> {"ping"}
             [] me.cmd = "none" /\ me.kind = "tx" -> {"isolation", "begin"}
             [] me.cmd = "none" /\ me.kind \in {"exec", "query"} -> {"query"}
             [] OTHER -> {}

\* Who reads the answer, and what comes first in it.
Mode(cmd) == CASE cmd \in {"endTx", "prepare"} -> cmd
               [] cmd \in {"query", "execute"} /\ me.kind \in {"query", "stmtQuery"} -> "query"
               [] OTHER -> "exec"

Reader(cmd) == CASE cmd = "ping" -> "ok"
                 [] cmd = "prepare" -> "prepared"
                 [] cmd = "longData" -> "execute"
                 [] OTHER -> "header"

\* A command of k frames written while result sets may be unread.
Long(k) == conn[me.c].long \/ (k > 1 /\ conn[me.c].more)

\* resetSequence, and k frames to write.
Write(cmd, k) ==
    /\ me' = [me EXCEPT !.pc = "write", !.cmd = cmd, !.arg = "none", !.left = k,
                        !.mode = Mode(cmd), !.then = Reader(cmd)]
    /\ conn' = [conn EXCEPT ![me.c] = [@ EXCEPT !.seq = 0, !.long = Long(k)]]

\* writeCommandPacket, writeCommandPacketStr and writeCommandPacketUint32, up to
\* writePacket.
Send ==
    /\ me.pc = "send"
    /\ \E cmd \in Command :
         LET long == cmd \in {"query", "prepare"}
         IN  \/ /\ conn[me.c].closed \/ Busy(me.c)
                /\ End(CASE conn[me.c].closed /\ cmd = "endTx" -> ErrorOf(me.c)
                         [] conn[me.c].closed /\ cmd # "endTx" -> "ErrBadConn"
                         [] OTHER -> MarkBadConn(cmd, "ErrBusyBuffer"))
                /\ UNCHANGED conn
             \/ /\ ~conn[me.c].closed /\ ~Busy(me.c) /\ long
                /\ End(MarkBadConn(cmd, "ErrPktTooLarge"))
                /\ UNCHANGED conn
             \/ /\ ~conn[me.c].closed /\ ~Busy(me.c)
                /\ \E k \in 1 .. (IF long THEN MaxFrames ELSE 1) : Write(cmd, k)
    /\ UNCHANGED <<net, done, tls, idle, srvVars>>

\* writeCommandLongData: a large parameter goes ahead, in commands of its own.
SendLongData == me.cmd = "stmt" /\ Write("longData", 1)

\* The beginning of stmt.Exec and stmt.query, and writeExecutePacket, which may
\* send long data ahead; it does not look at the connection again after that.
SendExecute ==
    /\ me.pc = "execute"
    /\ \/ /\ me.cmd = "stmt" /\ conn[me.c].closed
          /\ End("ErrBadConn")
          /\ UNCHANGED conn
       \/ /\ ~conn[me.c].closed \/ me.cmd = "longData"
          /\ End(MarkBadConn("execute", IF Busy(me.c) THEN "ErrBusyBuffer"
                                                     ELSE "ErrPktTooLarge"))
          /\ UNCHANGED conn
       \/ /\ ~conn[me.c].closed \/ me.cmd = "longData"
          /\ ~Busy(me.c)
          /\ \/ \E k \in 1 .. MaxFrames : Write("execute", k)
             \/ SendLongData
    /\ UNCHANGED <<net, done, tls, idle, srvVars>>

\* The write of a command failed.
WriteFailed ==
    /\ me.pc = "failed" /\ conn[me.c].st = "ready"
    /\ IF me.cmd = "stmtClose"
       THEN me' = [me EXCEPT !.pc = "release", !.got = NoPkt]
       ELSE End(MarkBadConn(me.cmd, me.got.kind))
    /\ UNCHANGED <<conn, net, done, tls, idle, srvVars>>

-----------------------------------------------------------------------------
(* Reading the answer.  me.mode says for whom: an exec that discards what   *)
(* it reads, the first result set of a query, the result sets query passes  *)
(* over ("loop"), rows.Close ("closing"), or a statement being prepared.     *)

Ready == me.got # NoPkt
More == me.got.kind \in {"OK+", "END+"}      \* statusMoreResultsExists
SetMore(b) == conn' = [conn EXCEPT ![me.c].more = b]
Goto(pc) == me' = [me EXCEPT !.pc = pc, !.got = NoPkt]

\* database/sql closes the rows, keeping the first error.
CloseRows(e) ==
    me' = [me EXCEPT !.pc = "finish", !.then = "drain", !.got = NoPkt, !.part = NoPkt,
                     !.bad = FALSE, !.err = IF me.err = "none" THEN e ELSE @]

Error == IF me.got.kind = "ERR" THEN "MySQLError" ELSE me.got.kind
Failed == IsErr(me.got) \/ me.got.kind = "ERR"

\* Ping: readResultOK.
ReadResultOK ==
    /\ me.pc = "ok" /\ Ready
    /\ \/ Failed /\ End(Error) /\ UNCHANGED conn
       \/ ~Failed /\ SetMore(More) /\ End("none")
    /\ UNCHANGED <<net, done, tls, idle, srvVars>>

\* discardResults: the next header if the server announced one, or the end of
\* the statement; a transaction goes on with its next statement, or begins.
DiscardResults(more) ==
    CASE more -> me' = [me EXCEPT !.pc = "header", !.got = NoPkt, !.rsDone = FALSE]
      [] ~more /\ me.mode = "exec" /\ me.cmd = "isolation" ->
           me' = [me EXCEPT !.pc = "send", !.got = NoPkt]
      [] ~more /\ me.mode = "exec" /\ me.cmd = "begin" ->
           me' = [me EXCEPT !.pc = "finish", !.then = "inTx", !.got = NoPkt]
      [] OTHER -> End("none")

\* Rows that have let go of the connection.
NoRows == me' = [me EXCEPT !.pc = "rows", !.got = NoPkt, !.rsDone = TRUE, !.mc = FALSE]

\* The loop of nextNotEmptyResultSet, over results without rows.
NextNotEmptyResultSet(more) ==
    \/ ErrorOf(me.c) # "none" /\ End(ErrorOf(me.c))
    \/ /\ ErrorOf(me.c) = "none" /\ more
       /\ me' = [me EXCEPT !.mode = "loop", !.got = NoPkt, !.rsDone = FALSE, !.mc = FALSE]
    \/ ErrorOf(me.c) = "none" /\ ~more /\ NoRows

\* readResultSetHeaderPacket.  binaryRows of an empty first result have no
\* connection and end there, whatever the server still announces.
ReadHeader ==
    /\ me.pc = "header" /\ Ready
    /\ \/ /\ Failed
          /\ End(Error)
          /\ IF me.mode = "loop" THEN SetMore(FALSE) ELSE UNCHANGED conn
       \/ /\ me.got.kind \in {"OK", "OK+"}
          /\ SetMore(More)
          /\ CASE me.mode = "query" /\ me.kind = "stmtQuery" ->
                    NoRows
               [] me.mode \in {"query", "loop"} /\ me.kind = "query" ->
                    NextNotEmptyResultSet(More)
               [] OTHER -> DiscardResults(More)
       \/ /\ me.got.kind = "HDR"
          /\ me' = [me EXCEPT !.pc = "columns", !.left = Columns, !.got = NoPkt]
          /\ UNCHANGED conn
    /\ UNCHANGED <<net, done, tls, idle, srvVars>>

\* readPrepareResultPacket: as many parameters as the call has, one here, and
\* the columns follow.
ReadPrepared ==
    /\ me.pc = "prepared" /\ Ready
    /\ \/ Failed /\ End(Error)
       \/ /\ ~Failed
          /\ me' = [me EXCEPT !.pc = "columns", !.left = 1, !.mode = "params", !.got = NoPkt]
    /\ UNCHANGED <<conn, net, done, tls, idle, srvVars>>

\* Prepare: the parameters are read, then the columns; the deferred finish of
\* PrepareContext follows.
Prepare ==
    IF me.mode = "params"
    THEN me' = [me EXCEPT !.pc = "columns", !.left = Columns, !.mode = "prepare",
                          !.got = NoPkt]
    ELSE me' = [me EXCEPT !.pc = "finish", !.then = "stmt", !.cmd = "stmt", !.got = NoPkt]

\* Where the columns lead.
AfterColumns ==
    CASE me.mode \in {"params", "prepare"} -> Prepare
      [] me.mode \in {"query", "loop"} ->
           me' = [me EXCEPT !.pc = "rows", !.got = NoPkt, !.rsDone = FALSE, !.mc = TRUE]
      [] OTHER -> Goto("skip")

\* readColumns and skipColumns, one definition at a time, and skipEof.
ReadColumn ==
    /\ me.pc = "columns" /\ Ready
    /\ \/ IsErr(me.got) /\ End(me.got.kind)
       \/ ~IsErr(me.got) /\ me.left > 1 /\ me' = [me EXCEPT !.left = @ - 1, !.got = NoPkt]
       \/ ~IsErr(me.got) /\ me.left = 1 /\ ~conn[me.c].deprecateEOF /\ Goto("eof")
       \/ ~IsErr(me.got) /\ me.left = 1 /\ conn[me.c].deprecateEOF /\ AfterColumns
    /\ UNCHANGED <<conn, net, done, tls, idle, srvVars>>

SkipEof ==
    /\ me.pc = "eof" /\ Ready
    /\ \/ IsErr(me.got) /\ End(me.got.kind)
       \/ ~IsErr(me.got) /\ AfterColumns
    /\ UNCHANGED <<conn, net, done, tls, idle, srvVars>>

\* skipRows
SkipRow ==
    /\ me.pc = "skip" /\ Ready
    /\ \/ Failed /\ End(Error) /\ UNCHANGED conn
       \/ me.got.kind = "ROW" /\ Goto("skip") /\ UNCHANGED conn
       \/ me.got.kind \in {"END", "END+"} /\ SetMore(More) /\ DiscardResults(More)
    /\ UNCHANGED <<net, done, tls, idle, srvVars>>

-----------------------------------------------------------------------------
(* Rows                                                                     *)

\* rows.Next begins.
NextRow ==
    /\ me.pc = "rows"
    /\ CASE ~me.mc -> CloseRows("none")
         [] me.mc /\ ErrorOf(me.c) # "none" -> CloseRows(ErrorOf(me.c))
         [] me.mc /\ ErrorOf(me.c) = "none" /\ ~me.rsDone -> Goto("next")
         [] OTHER -> CloseRows("none")
    /\ UNCHANGED <<conn, net, done, tls, idle, srvVars>>

\* The result set ends; more may follow on the connection.
RowsEnd ==
    /\ me.got.kind \in {"END", "END+"}
    /\ SetMore(More)
    /\ me' = [me EXCEPT !.pc = IF More THEN "rows" ELSE "finish",
                        !.then = IF More THEN @ ELSE "drain",
                        !.got = NoPkt, !.rsDone = TRUE, !.mc = More]

RowsFail ==
    /\ me.got.kind = "ERR"
    /\ me' = [me EXCEPT !.pc = "finish", !.then = "drain", !.got = NoPkt,
                        !.mc = FALSE, !.err = "MySQLError"]
    /\ UNCHANGED conn

RowRead ==
    /\ me.got.kind = "ROW"
    /\ me' = [me EXCEPT !.pc = "rows", !.got = NoPkt, !.rows = @ + 1]
    /\ UNCHANGED conn

\* textRows.readRow, binaryRows.readRow
ReadTextRow ==
    /\ me.pc = "next" /\ Ready /\ me.kind = "query"
    /\ \/ IsErr(me.got) /\ CloseRows(me.got.kind) /\ UNCHANGED conn
       \/ RowsEnd \/ RowsFail \/ RowRead
    /\ UNCHANGED <<net, done, tls, idle, srvVars>>

ReadBinaryRow ==
    /\ me.pc = "next" /\ Ready /\ me.kind = "stmtQuery"
    /\ \/ IsErr(me.got) /\ CloseRows(me.got.kind) /\ UNCHANGED conn
       \/ RowRead \/ RowsEnd \/ RowsFail
    /\ UNCHANGED <<net, done, tls, idle, srvVars>>

\* The rows read so far, handed over as the whole result.
StopScanningQuietly ==
    /\ me.pc = "rows" /\ me.rows > 0
    /\ CloseRows("none")
    /\ UNCHANGED <<conn, net, done, tls, idle, srvVars>>

\* ScanRows stops: the byte ceiling is reached, or a value cannot be parsed.
StopScanning ==
    /\ me.pc = "rows" /\ me.rows > 0
    /\ CloseRows("ErrTooLarge")
    /\ UNCHANGED <<conn, net, done, tls, idle, srvVars>>

\* database/sql closes rows whose context is done, between two calls of Next.
AwaitDone ==
    /\ me.pc = "rows" /\ me.n \in done
    /\ CloseRows("canceled")
    /\ UNCHANGED <<conn, net, done, tls, idle, srvVars>>

\* rows.Close, after its finish: the rest of the stream is read, unwatched.
Drain ==
    /\ me.pc = "drain"
    /\ CASE me.mc /\ ErrorOf(me.c) # "none" -> End(ErrorOf(me.c))
         [] me.mc /\ ErrorOf(me.c) = "none" /\ ~me.rsDone ->
              me' = [me EXCEPT !.pc = "skip", !.mode = "closing"]
         [] me.mc /\ ErrorOf(me.c) = "none" /\ me.rsDone /\ conn[me.c].more ->
              me' = [me EXCEPT !.pc = "header", !.mode = "closing"]
         [] OTHER -> End("none")
    /\ UNCHANGED <<conn, net, done, tls, idle, srvVars>>

-----------------------------------------------------------------------------
(* Prepared statements and transactions                                     *)

\* PrepareContext returned, or closed the statement of a context that is done;
\* then stmt.ExecContext or stmt.QueryContext.
UseStmt ==
    /\ me.pc = "stmt"
    /\ \/ /\ me.n \in done
          /\ me' = [me EXCEPT !.pc = "closeStmt", !.err = "canceled"]
          /\ UNCHANGED <<conn, net>>
       \/ /\ me.n \notin done
          /\ HandContext("execute")
    /\ UNCHANGED <<done, tls, idle, srvVars>>

\* stmt.Close: no answer comes.
CloseStmt ==
    /\ me.pc = "closeStmt"
    /\ IF conn[me.c].closed \/ Busy(me.c)
       THEN me' = [me EXCEPT !.pc = "release"] /\ UNCHANGED conn
       ELSE /\ conn' = [conn EXCEPT ![me.c].seq = 0]
            /\ me' = [me EXCEPT !.pc = "write", !.cmd = "stmtClose", !.left = 1,
                                !.then = "release"]
    /\ UNCHANGED <<net, done, tls, idle, srvVars>>

\* tx.Commit or tx.Rollback, which no context bounds.
EndTx ==
    /\ me.pc = "inTx"
    /\ me' = [me EXCEPT !.pc = "send", !.mode = "endTx"]
    /\ UNCHANGED <<conn, net, done, tls, idle, srvVars>>

-----------------------------------------------------------------------------
(* The server                                                               *)

Answers(cmd, deprecateEOF) ==
    LET F(k) == [kind |-> k, size |-> "part"]
        Cols(n) == [i \in 1 .. n |-> F("COL")]
        Eof == IF deprecateEOF THEN <<>> ELSE <<F("EOF")>>
    IN  CASE cmd = "ping" -> {<<F("OK")>>}
          [] cmd \in {"isolation", "begin", "endTx"} -> {<<F("OK")>>, <<F("ERR")>>}
          [] cmd = "prepare" ->
               {<<F("ERR")>>, <<F("OK"), F("COL")>> \o Eof \o Cols(Columns) \o Eof}
          [] cmd \in {"longData", "stmtClose"} -> {<<>>}
          [] cmd \in {"query", "execute"} -> Replies[deprecateEOF]

FirstRows(r) ==
    {i \in DOMAIN r : /\ r[i].kind = "ROW"
                      /\ \A j \in 1 .. i : r[j].kind \notin {"END", "END+"}}

\* The server runs the complete command it has received.
ServerRuns(c) ==
    /\ net[c].up = "up" /\ net[c].out = <<>>
    /\ \E i \in DOMAIN net[c].in :
         LET f == net[c].in[i]
         IN  /\ f.last /\ \A j \in 1 .. i - 1 : ~net[c].in[j].last
             /\ f.cmd \notin AuthCmds
             /\ \E r \in Answers(f.cmd, conn[c].deprecateEOF) :
                  LET frames == [k \in DOMAIN r |->
                                   [kind |-> r[k].kind, size |-> r[k].size, arg |-> "none",
                                    seq |-> (f.seq + k) % SeqMod, own |-> f.own]]
                  IN  /\ net' = [net EXCEPT ![c].in = SubSeq(@, i + 1, Len(@)),
                                   ![c].out = IF conn[c].closed THEN <<>> ELSE frames]
                      /\ ran' = IF f.cmd \in Main THEN [ran EXCEPT ![f.own] = @ + 1] ELSE ran
                      /\ served' = IF f.cmd \in Main /\ f.own = me.n
                                   THEN Cardinality(FirstRows(r)) ELSE served
    /\ UNCHANGED <<conn, me, done, tls, idle>>

-----------------------------------------------------------------------------
WireStep ==
    \/ ReadFails \/ ReadFrame \/ WriteFrame \/ Finish
    \/ \E n \in {0, 1} : WriteFails(n)

WatcherStep(c) ==
    /\ WatcherTakes(c) \/ WatcherCancels(c) \/ WatcherEnds(c)
    /\ UNCHANGED <<tls, idle, srvVars>>

Deadline == ContextDone /\ UNCHANGED <<tls, idle, srvVars>>

ConnectStep ==
    \/ Dial \/ ReadHandshakePacket \/ SwitchToTLS \/ HandleAuthResult
    \/ ReadPublicKey \/ ReadAuthOK \/ HandshakeWriteFails

\* Steps the calling goroutine always gets to take.
CallerStep ==
    \/ WireStep /\ UNCHANGED <<tls, idle, srvVars>>
    \/ ConnectStep /\ UNCHANGED <<idle, srvVars>>
    \/ TakeConn \/ ConnectFailed \/ ResetSession \/ Release
    \/ Watch \/ Send \/ SendExecute \/ WriteFailed
    \/ ReadResultOK \/ ReadHeader \/ ReadPrepared \/ ReadColumn \/ SkipEof \/ SkipRow
    \/ NextRow \/ ReadTextRow \/ ReadBinaryRow \/ AwaitDone \/ Drain
    \/ UseStmt \/ CloseStmt \/ EndTx

Choice ==
    \/ StartCall \/ StopScanning
    \/ \E c \in Conn : IdleClose(c)

Failure ==
    \/ DialFails /\ UNCHANGED <<idle, srvVars>>
    \/ \E c \in Conn : ServerGone(c) /\ UNCHANGED <<tls, idle, srvVars>>

ServerStep(c) ==
    \/ ServerAuthenticates(c) /\ UNCHANGED <<idle, srvVars>>
    \/ ServerRuns(c)

Next ==
    \/ CallerStep \/ Choice \/ Failure
    \/ Fill /\ UNCHANGED <<tls, idle, srvVars>>
    \/ \E c \in Conn : ServerStep(c)
    \/ \E c \in Conn : WatcherStep(c)
    \/ Deadline

Spec == Init /\ [][Next]_vars

\* Client.Exec and Query put the client's timeout on their context; Ping does
\* not, and a statement or transaction of database/sql need not have one.
Timed == me.kind \in {"exec", "query"}

\* The calling goroutine and the watchers run, and a timeout passes.  Nothing is
\* assumed of the server, nor of a context without a timeout.
Fairness ==
    /\ WF_vars(CallerStep)
    /\ \A c \in Conn : WF_vars(WatcherStep(c))
    /\ WF_vars(Timed /\ Deadline)

FairSpec == Spec /\ Fairness

-----------------------------------------------------------------------------
PCs == ReadPCs \cup {"idle", "conn", "dial", "tls", "write", "failed", "finish", "reset",
                     "watch", "send", "execute", "rows", "drain", "stmt", "closeStmt", "inTx",
                     "release", "connectFailed"}

Arg == Plugin \cup Usable \cup {"none"}

\* What goes over the wire, and what a call may be about.
Sent == AuthCmds \cup Main \cup {"prepare", "longData", "stmtClose", "isolation", "endTx"}

Cmd == Sent \cup {"none", "stmt"}

CallOrNone == 0 .. MaxCalls

Packet == [kind : PacketKind \cup Errors \cup {"none"}, own : CallOrNone, arg : Arg]

ServerFrame == [kind : PacketKind, size : Size, arg : Arg, seq : 0 .. SeqMod - 1,
                own : CallOrNone]

ClientFrame == [cmd : Sent, own : CallOrNone, arg : Arg, seq : 0 .. SeqMod - 1,
                last : BOOLEAN]

Connection ==
    [st : {"none", "dialled", "ready", "dropped"}, closed : BOOLEAN, canceled : CallOrNone,
     watching : BOOLEAN, chan : CallOrNone, watcher : {"off", "idle", "watching", "ended"},
     ctx : CallOrNone, seq : 0 .. SeqMod - 1, buf : Seq(ServerFrame), more : BOOLEAN,
     tls : BOOLEAN, deprecateEOF : BOOLEAN, user : CallOrNone, long : BOOLEAN]

Socket == [up : {"up", "gone"}, in : Seq(ClientFrame), out : Seq(ServerFrame),
           accepted : BOOLEAN, ssl : BOOLEAN, eof : BOOLEAN]

Caller ==
    [n : CallOrNone, kind : {"none", "exec", "query", "ping", "tx"} \cup Stmt,
     cred : CallOrNone, pc : PCs, c : Conn \cup {NoConn}, tries : 0 .. 2, cmd : Cmd,
     arg : Arg, left : Nat, then : PCs \cup {"none"},
     mode : {"none", "exec", "query", "loop", "closing", "params", "prepare", "endTx"},
     rsDone : BOOLEAN, mc : BOOLEAN, err : Errors \cup {"none"}, rows : Nat, got : Packet,
     part : Packet, bad : BOOLEAN]

TypeOK ==
    /\ conn \in [Conn -> Connection]
    /\ net \in [Conn -> Socket]
    /\ me \in Caller
    /\ done \subseteq Call /\ idle \subseteq Conn /\ tls \in BOOLEAN
    /\ ran \in [Call -> Nat] /\ served \in Nat

\* A statement reaches the server at most once, however often database/sql
\* tries: ErrBadConn is only returned when the command was not sent.
AtMostOnce == \A n \in Call : ran[n] <= 1

\* A call never takes the answer to an earlier call for its own, although a
\* connection may go back to the pool with result sets nobody has read: their
\* first packet is not numbered 1.  (So a command of k frames may accept such a
\* packet, if it is numbered k; on that connection nothing is claimed from then on.)
OwnReply ==
    me.got # NoPkt /\ ~IsErr(me.got) /\ me.got.kind # "ERR" /\ ~conn[me.c].long
      => me.got.own = me.n

\* A result is never cut short in silence, on such a connection.
WholeResult ==
    me.pc = "release" /\ me.kind = "query" /\ me.err = "none" /\ ~conn[me.c].long
      => me.rows = served

\* A connection is used once the server has accepted its user, and only by
\* calls with that user's credential; a caller's token is sent under TLS.
SessionIsCallers ==
    me.c # NoConn /\ conn[me.c].st = "ready" =>
      /\ net[me.c].accepted
      /\ conn[me.c].user = me.cred
      /\ me.cred # NoCall => conn[me.c].tls

\* A connection nobody uses is closed, or in the pool and fit for any call:
\* a failed Connect leaks no socket, and a pooled one is not watched.
NothingLeaks ==
    \A c \in Conn : conn[c].st # "none" /\ me.c # c =>
      \/ conn[c].closed
      \/ c \in idle /\ conn[c].st = "ready" /\ ~conn[c].watching /\ ~Busy(c)

\* Only the context of the call using a connection closes it.
NoStrayCancel ==
    [][\A c \in Conn : conn'[c].canceled # conn[c].canceled /\ ~conn[c].closed =>
         conn'[c].canceled = me.n /\ me.c = c]_vars

Unwatched == me.c # NoConn /\ ~conn[me.c].watching /\ me.pc \in ReadPCs

\* A call with the client's timeout returns, and so does any other once its
\* caller has given up, unless it reads what no context bounds any more.
CallsReturn ==
    (me.pc # "idle" /\ (Timed \/ me.n \in done)) ~> (me.pc = "idle" \/ Unwatched)

\* The timeout of the client bounds every statement.
QueryTimeoutBounds == (me.pc # "idle") ~> (me.pc = "idle")

=============================================================================
