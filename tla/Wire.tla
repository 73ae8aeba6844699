-------------------------------- MODULE Wire ---------------------------------
(***************************************************************************)
(* One mysqlConn of the StarRocks wire driver below its commands: the read *)
(* buffer and the packet framing over a byte stream, writePacket, the      *)
(* watcher goroutine that closes the connection when the context of the    *)
(* call is done, and the server's end of the stream.  A packet is one or   *)
(* more frames; a frame of maxPacketSize bytes ("full") is continued by    *)
(* the next one, which may be empty ("zero").                              *)
(*                                                                         *)
(* One goroutine at a time uses a connection: me is what it is doing.  The *)
(* server, the watchers and the clock run beside it.                       *)
(***************************************************************************)
EXTENDS Naturals, Sequences

CONSTANTS
    Conn,       \* connections that may be dialled, numbered from 1
    MaxCalls,   \* calls made, one after the other, each with its own context
    SeqMod      \* packet numbers wrap here; 256 on the wire

ASSUME WireAssumption ==
    /\ Conn \subseteq Nat \ {0}
    /\ MaxCalls \in Nat
    /\ SeqMod \in Nat \ {0}

VARIABLES
    conn,   \* the mysqlConn values
    net,    \* the socket of each, and the server behind it: in is what the
            \* server has received, out what it wrote and the client has not read
    me,     \* the calling goroutine
    done    \* the calls whose context is done

wireVars == <<conn, net, me, done>>

Call == 1 .. MaxCalls
NoCall == 0
NoConn == 0

-----------------------------------------------------------------------------
(* Packets.  A packet is known by its first byte and, where it matters, one *)
(* argument; own is the call whose command it answers.                      *)

NoPkt == [kind |-> "none", own |-> NoCall, arg |-> "none"]

\* Frames of maxPacketSize bytes, of fewer, of none.
Size == {"full", "part", "zero"}

\* What readPacket and writePacket return instead of a packet.
Errors == {"ErrInvalidConn", "ErrPktSync", "ErrPktSyncMul", "ErrPktTooLarge",
           "ErrBusyBuffer", "errBadConnNoWrite", "ErrBadConn", "ErrWrite",
           "ErrMalformPkt", "canceled", "MySQLError", "ErrSetup", "ErrTooLarge"}

Err(e) == [kind |-> e, own |-> NoCall, arg |-> "none"]

IsErr(p) == p.kind \in Errors

NextUnwrapped(s) == s + 1

Next8(s) == (s + 1) % SeqMod

-----------------------------------------------------------------------------
(* Closing.  cleanup is idempotent and may be called by any goroutine.      *)

\* The mysqlConn and the socket before Connect.  ssl and eof are the
\* capabilities the server announces.  long is no field of the code: it keeps
\* that a command of several frames was written although more was set.
NewConn == [st |-> "none", closed |-> FALSE, canceled |-> NoCall,
            watching |-> FALSE, chan |-> NoCall, watcher |-> "off", ctx |-> NoCall,
            seq |-> 0, buf |-> <<>>, more |-> FALSE,
            tls |-> FALSE, deprecateEOF |-> FALSE, user |-> NoCall, long |-> FALSE]

NewNet == [up |-> "up", in |-> <<>>, out |-> <<>>,
           accepted |-> FALSE, ssl |-> FALSE, eof |-> FALSE]

\* A closed socket is read no more: what was in flight is lost.
CloseNet(n) == [n EXCEPT !.out = <<>>]

Cleanup(c) ==
    /\ conn' = [conn EXCEPT ![c].closed = TRUE]
    /\ net' = [net EXCEPT ![c] = CloseNet(@)]

\* The commands a call is about; the others prepare it or wind it up.
Main == {"query", "execute", "begin", "ping"}

\* The last reference to a closed connection goes.  Its watcher can only end;
\* the server may still run a complete command it has received.
Drop(c) ==
    LET pending == \E i \in DOMAIN net[c].in :
                     net[c].in[i].last /\ net[c].in[i].cmd \in Main
    IN  /\ conn' = [conn EXCEPT ![c] = [NewConn EXCEPT !.st = "dropped", !.closed = TRUE,
                                                       !.watcher = "ended"]]
        /\ net' = [net EXCEPT ![c] = [NewNet EXCEPT !.up = IF pending THEN "up" ELSE "gone",
                                        !.in = IF pending THEN net[c].in ELSE <<>>]]

\* The error of a failed read or write: the context's, when it was canceled.
CanceledOr(c, e) == IF conn[c].canceled # NoCall THEN "canceled" ELSE e

\* mc.error()
ErrorOf(c) ==
    IF ~conn[c].closed THEN "none" ELSE CanceledOr(c, "ErrInvalidConn")

\* buffer.busy(): bytes were read that nobody has consumed.
Busy(c) == conn[c].buf # <<>>

-----------------------------------------------------------------------------
(* readPacket, frame by frame                                               *)

ReadPCs == {"hello", "authResult", "authOK", "authKey", "header", "ok",
            "prepared", "columns", "eof", "skip", "next"}

Reading == me.pc \in ReadPCs /\ me.got = NoPkt

Got(p) == me' = [me EXCEPT !.got = p, !.part = NoPkt, !.bad = FALSE]

\* buffer.fill: one Read takes what has arrived, at least a frame here.
Fill ==
    /\ Reading
    /\ conn[me.c].buf = <<>>
    /\ ~conn[me.c].closed
    /\ \E k \in DOMAIN net[me.c].out :
         /\ conn' = [conn EXCEPT ![me.c].buf = SubSeq(net[me.c].out, 1, k)]
         /\ net' = [net EXCEPT ![me.c].out = SubSeq(@, k + 1, Len(@))]
    /\ UNCHANGED <<me, done>>

ReadFailsRetriable ==
    /\ Reading /\ conn[me.c].buf = <<>>
    /\ conn[me.c].closed \/ (net[me.c].up = "gone" /\ net[me.c].out = <<>>)
    /\ Cleanup(me.c)
    /\ Got(Err(CanceledOr(me.c, "ErrBadConn")))
    /\ UNCHANGED done

\* The Read fails: the connection was closed here, or by the server.
ReadFails ==
    /\ Reading
    /\ conn[me.c].buf = <<>>
    /\ \/ conn[me.c].closed
       \/ net[me.c].up = "gone" /\ net[me.c].out = <<>>
    /\ Cleanup(me.c)
    /\ Got(Err(CanceledOr(me.c, "ErrInvalidConn")))
    /\ UNCHANGED done

\* The packet number is not the expected one.
NeverOutOfSync(f) == FALSE
OutOfSync(f) == f.seq # conn[me.c].seq

\* The body of readPacket's loop.
ReadFrame ==
    LET c == me.c
        f == Head(conn[c].buf)
        wrong == OutOfSync(f)
        first == me.part = NoPkt
        pkt == IF first THEN [kind |-> f.kind, own |-> f.own, arg |-> f.arg]
               ELSE me.part
        bad == me.bad \/ wrong
        taken == [conn EXCEPT ![c].buf = Tail(@), ![c].seq = Next8(f.seq)]
        ends == \/ wrong /\ ~first
                \/ first /\ f.size = "zero"
                \/ f.size = "part" /\ bad
    IN  /\ Reading
        /\ Busy(c)
        /\ \/ /\ ends
              /\ conn' = [taken EXCEPT ![c].closed = TRUE]
              /\ net' = [net EXCEPT ![c] = CloseNet(@)]
              /\ Got(CASE wrong /\ ~first -> Err("ErrPktSyncMul")
                       [] first /\ f.size = "zero" -> Err("ErrInvalidConn")
                       [] OTHER -> IF pkt.kind = "ERR" THEN pkt ELSE Err("ErrPktSync"))
           \/ /\ ~ends /\ f.size \in {"part", "zero"}
              /\ conn' = taken
              /\ Got(pkt)
              /\ UNCHANGED net
           \/ /\ ~ends /\ f.size = "full"
              /\ conn' = taken
              /\ me' = [me EXCEPT !.part = pkt, !.bad = bad]
              /\ UNCHANGED net
        /\ UNCHANGED done

-----------------------------------------------------------------------------
(* writePacket, frame by frame.  me.left frames of the packet me.cmd remain *)
(* and the goroutine goes on at me.then.                                    *)

Frame(last) == [cmd |-> me.cmd, own |-> me.n, arg |-> me.arg,
                seq |-> conn[me.c].seq, last |-> last]

WriteFrame ==
    /\ me.pc = "write"
    /\ ~conn[me.c].closed
    /\ net' = [net EXCEPT ![me.c].in =
                  IF net[me.c].up = "gone" THEN @ ELSE Append(@, Frame(me.left = 1))]
    /\ conn' = [conn EXCEPT ![me.c].seq = Next8(@)]
    /\ me' = [me EXCEPT !.left = @ - 1, !.pc = IF me.left = 1 THEN me.then ELSE @]
    /\ UNCHANGED done

\* The Write fails with n bytes written; n > 0 leaves a torn frame behind,
\* which the server never completes.  The code's test for the first frame,
\* pktLen == len(data)-4, holds of every frame.
WriteFails(n) ==
    /\ me.pc = "write"
    /\ conn[me.c].closed \/ net[me.c].up = "gone"
    /\ conn[me.c].closed => n = 0
    /\ Cleanup(me.c)
    /\ me' = [me EXCEPT !.pc = "failed", !.got =
                 Err(CanceledOr(me.c, IF n = 0 THEN "errBadConnNoWrite" ELSE "ErrWrite"))]
    /\ UNCHANGED done

-----------------------------------------------------------------------------
(* The watcher goroutine and the handshake with it                          *)

\* It takes the context handed to it by watchCancel.
WatcherTakes(c) ==
    /\ conn[c].watcher = "idle" /\ conn[c].chan # NoCall
    /\ conn' = [conn EXCEPT ![c].watcher = "watching", ![c].chan = NoCall,
                            ![c].ctx = conn[c].chan]
    /\ UNCHANGED <<net, me, done>>

WatcherCancelsQuietly(c) ==
    /\ conn[c].watcher = "watching" /\ conn[c].ctx \in done
    /\ conn' = [conn EXCEPT ![c].watcher = "idle", ![c].ctx = NoCall,
                            ![c].canceled = conn[c].ctx]
    /\ UNCHANGED <<net, me, done>>

\* The context is done: cancel.
WatcherCancels(c) ==
    /\ conn[c].watcher = "watching" /\ conn[c].ctx \in done
    /\ conn' = [conn EXCEPT ![c].watcher = "idle", ![c].ctx = NoCall,
                            ![c].canceled = conn[c].ctx, ![c].closed = TRUE]
    /\ net' = [net EXCEPT ![c] = CloseNet(@)]
    /\ UNCHANGED <<me, done>>

\* closech is closed.
WatcherEnds(c) ==
    /\ conn[c].watcher \in {"idle", "watching"} /\ conn[c].closed
    /\ conn' = [conn EXCEPT ![c].watcher = "ended", ![c].ctx = NoCall]
    /\ UNCHANGED <<net, me, done>>

FinishAtOnce ==
    /\ me.pc = "finish"
    /\ conn' = [conn EXCEPT ![me.c].watching = FALSE]
    /\ me' = [me EXCEPT !.pc = me.then]
    /\ UNCHANGED <<net, done>>

\* finish: rendezvous with the watcher, or find the connection closed.
Finish ==
    /\ me.pc = "finish"
    /\ \/ /\ ~conn[me.c].watching
          /\ UNCHANGED conn
       \/ /\ conn[me.c].watching /\ conn[me.c].watcher = "watching"
          /\ conn' = [conn EXCEPT ![me.c].watching = FALSE,
                                  ![me.c].watcher = "idle", ![me.c].ctx = NoCall]
       \/ /\ conn[me.c].watching /\ conn[me.c].closed
          /\ UNCHANGED conn
    /\ me' = [me EXCEPT !.pc = me.then]
    /\ UNCHANGED <<net, done>>

HandContext(next) ==
    /\ conn' = [conn EXCEPT ![me.c].watching = TRUE, ![me.c].chan = me.n]
    /\ me' = [me EXCEPT !.pc = next]
    /\ UNCHANGED net

\* watchCancel, with where the goroutine goes on: dead when the context is
\* done already, next when it is watched.  A connection still watching was
\* canceled, and is closed.
WatchCancel(next, dead) ==
    \/ /\ conn[me.c].watching
       /\ Cleanup(me.c)
       /\ me' = [me EXCEPT !.pc = next]
    \/ /\ ~conn[me.c].watching /\ me.n \in done
       /\ me' = [me EXCEPT !.pc = dead, !.err = "canceled"]
       /\ UNCHANGED <<conn, net>>
    \/ /\ ~conn[me.c].watching /\ me.n \notin done
       /\ HandContext(next)

-----------------------------------------------------------------------------
(* The network and the server's end of it                                   *)

\* The server goes away: what it had written may not arrive.  (A server that
\* stalls is one that takes no step, or whose frames do not arrive.)
ServerGone(c) ==
    /\ conn[c].st \in {"dialled", "ready"} /\ net[c].up = "up"
    /\ \E out \in {net[c].out, <<>>} :
         net' = [net EXCEPT ![c] = [@ EXCEPT !.up = "gone", !.in = <<>>, !.out = out]]
    /\ UNCHANGED <<conn, me, done>>

\* The deadline of the context passes, or its caller gives up.
ContextDone ==
    /\ me.n # NoCall /\ me.pc # "idle" /\ me.n \notin done
    /\ done' = done \cup {me.n}
    /\ UNCHANGED <<conn, net, me>>

=============================================================================
