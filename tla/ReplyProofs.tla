----------------------------- MODULE ReplyProofs ------------------------------
(***************************************************************************)
(* Proofs about the answers a call of Driver takes, for any calls,          *)
(* connections and replies that obey the protocol.                          *)
(***************************************************************************)
EXTENDS DriverProofs

USE WireAssumption, HandshakeAssumption, DriverAssumption

(* A call takes no answer but its own: the unread bytes of a connection x   *)
(* with socket n, what they may be, and what is still to be answered.       *)

Stream(x, n) == x.buf \o n.out

\* t is the beginning of s; t is s without its first frame.
Prefix(t, s) == Len(t) <= Len(s) /\ \A i \in 1 .. Len(t) : t[i] = s[i]
Shift(t, s) == Len(t) + 1 = Len(s) /\ \A i \in 1 .. Len(t) : t[i] = s[i + 1]

\* Frames numbered from q, in answer to call n.
Numbered(s, q, n) ==
    /\ 1 <= Len(s) => s[1].seq = q
    /\ \A i \in 1 .. Len(s) : s[i].own = n
    /\ \A i \in 1 .. Len(s) : i + 1 <= Len(s) => s[i + 1].seq = Next8(s[i].seq)

HeadNext(s) == 1 <= Len(s) => s[1].kind \in HeadKinds
RowNext(s) == 1 <= Len(s) => s[1].kind \in RowKinds
AllPart(s) == \A i \in 1 .. Len(s) : s[i].size = "part"

LEMMA PrefixFrames ==
    ASSUME NEW s \in Seq(ServerFrame), NEW t \in Seq(ServerFrame), Prefix(t, s)
    PROVE  /\ \A q, n : Numbered(s, q, n) => Numbered(t, q, n)
           /\ HeadNext(s) => HeadNext(t)
           /\ RowNext(s) => RowNext(t)
           /\ AllPart(s) => AllPart(t)
<1>1. Len(s) \in Nat /\ Len(t) \in Nat
  OBVIOUS
<1>2. \A q, n : Numbered(s, q, n) => Numbered(t, q, n)
  BY <1>1, SMTT(30) DEF Prefix, Numbered
<1>3. (HeadNext(s) => HeadNext(t)) /\ (RowNext(s) => RowNext(t)) /\ (AllPart(s) => AllPart(t))
  BY <1>1 DEF Prefix, HeadNext, RowNext, AllPart
<1> QED
  BY <1>2, <1>3

LEMMA PrefixGrammar ==
    ASSUME NEW s \in Seq(ServerFrame), NEW t \in Seq(ServerFrame), Prefix(t, s)
    PROVE  /\ \A i \in Nat, n \in Nat, eof \in BOOLEAN : Metadata(s, i, n, eof) => Metadata(t, i, n, eof)
           /\ \A k, z : \A i \in 0 .. Len(t), eof \in BOOLEAN :
                 Continues(s, i, k, z, eof) => Continues(t, i, k, z, eof)
           /\ \A eof \in BOOLEAN : WellFormed(s, eof) => WellFormed(t, eof)
<1>1. Len(s) \in Nat /\ Len(t) \in Nat /\ DOMAIN s = 1 .. Len(s) /\ DOMAIN t = 1 .. Len(t)
  OBVIOUS
<1>2. ASSUME NEW i \in Nat, NEW n \in Nat, NEW eof \in BOOLEAN, Metadata(s, i, n, eof)
      PROVE  Metadata(t, i, n, eof)
  <2>1. \A j \in Nat : j >= 1 /\ j <= Len(t) => j <= Len(s) /\ t[j] = s[j]
    BY <1>1 DEF Prefix
  <2>2. \A j \in 1 .. n : i + j <= Len(t) => t[i + j].kind = "COL"
    BY <1>1, <1>2, <2>1 DEF Metadata
  <2>3. i + n + 1 <= Len(t) => i + n + 1 <= Len(s) /\ t[i + n + 1] = s[i + n + 1]
    BY <1>1, <2>1
  <2>4. i + n + 2 <= Len(t) => i + n + 2 <= Len(s) /\ t[i + n + 2] = s[i + n + 2]
    BY <1>1, <2>1
  <2> QED
    BY <1>2, <2>2, <2>3, <2>4 DEF Metadata
<1>3. ASSUME NEW i \in 0 .. Len(t), NEW k, NEW z, NEW eof \in BOOLEAN, Continues(s, i, k, z, eof)
      PROVE  Continues(t, i, k, z, eof)
  <2>1. k \in {"OK", "ERR", "END"} => Len(t) = i
    BY <1>1, <1>3 DEF Prefix, Continues
  <2>2. k = "HDR" => Metadata(t, i, Columns, eof)
    BY <1>1, <1>2, <1>3 DEF Continues
  <2>3. i + 1 <= Len(t) => i + 1 <= Len(s) /\ t[i + 1] = s[i + 1]
    BY <1>1 DEF Prefix
  <2> QED
    BY <1>3, <2>1, <2>2, <2>3 DEF Continues
<1>4. ASSUME NEW eof \in BOOLEAN, WellFormed(s, eof)
      PROVE  WellFormed(t, eof)
  <2>1. ASSUME NEW i \in DOMAIN t
        PROVE  i \in DOMAIN s /\ i \in 0 .. Len(t) /\ t[i] = s[i]
    BY <1>1, <2>1 DEF Prefix
  <2> QED
    BY <1>3, <1>4, <2>1 DEF WellFormed
<1> QED
  BY <1>2, <1>3, <1>4

LEMMA ShiftFrames ==
    ASSUME NEW s \in Seq(ServerFrame), NEW t \in Seq(ServerFrame), Shift(t, s)
    PROVE  /\ 1 <= Len(s) /\ s[1] \in ServerFrame
           /\ \A q, n : Numbered(s, q, n) =>
                 Numbered(t, Next8(s[1].seq), n) /\ s[1].seq = q /\ s[1].own = n
           /\ AllPart(s) => AllPart(t) /\ s[1].size = "part"
<1>1. Len(s) \in Nat /\ Len(t) \in Nat /\ 1 <= Len(s)
  BY DEF Shift
<1>2. \A q, n : Numbered(s, q, n) => Numbered(t, Next8(s[1].seq), n) /\ s[1].seq = q /\ s[1].own = n
  <2> SUFFICES ASSUME NEW q, NEW n, Numbered(s, q, n)
               PROVE  Numbered(t, Next8(s[1].seq), n) /\ s[1].seq = q /\ s[1].own = n
    OBVIOUS
  <2>1. s[1].seq = q /\ s[1].own = n
    BY <1>1 DEF Numbered
  <2>2. ASSUME NEW i \in 1 .. Len(t)
        PROVE  /\ i \in 1 .. Len(s) /\ i + 1 \in 1 .. Len(s) /\ t[i] = s[i + 1]
               /\ i + 1 <= Len(t) => i + 1 \in 1 .. Len(t) /\ t[i + 1] = s[i + 1 + 1] /\ i + 1 + 1 <= Len(s)
    BY <1>1, <2>2 DEF Shift
  <2>3. 1 <= Len(t) => t[1].seq = Next8(s[1].seq)
    <3>1. 1 <= Len(t) => t[1] = s[1 + 1] /\ 1 + 1 <= Len(s)
      BY <1>1 DEF Shift
    <3>2. 1 \in 1 .. Len(s)
      BY <1>1
    <3>3. 1 + 1 <= Len(s) => s[1 + 1].seq = Next8(s[1].seq)
      BY <3>2 DEF Numbered
    <3> QED
      BY <3>1, <3>3
  <2>4. \A i \in 1 .. Len(t) : t[i].own = n
    BY <2>2 DEF Numbered
  <2>5. ASSUME NEW i \in 1 .. Len(t), i + 1 <= Len(t)
        PROVE  t[i + 1].seq = Next8(t[i].seq)
    <3>1. /\ t[i] = s[i + 1] /\ t[i + 1] = s[i + 1 + 1]
          /\ i + 1 \in 1 .. Len(s) /\ i + 1 + 1 <= Len(s)
      BY <2>2, <2>5
    <3> DEFINE j == i + 1
    <3>2. j \in 1 .. Len(s) /\ j + 1 <= Len(s) => s[j + 1].seq = Next8(s[j].seq)
      BY DEF Numbered
    <3> QED
      BY <3>1, <3>2
  <2> QED
    BY <2>1, <2>3, <2>4, <2>5 DEF Numbered
<1>3. AllPart(s) => AllPart(t) /\ s[1].size = "part"
  BY <1>1 DEF Shift, AllPart
<1> QED
  BY <1>1, <1>2, <1>3

LEMMA ShiftGrammar ==
    ASSUME NEW s \in Seq(ServerFrame), NEW t \in Seq(ServerFrame), Shift(t, s)
    PROVE  /\ \A i \in Nat, n \in Nat, eof \in BOOLEAN :
                 Metadata(s, i + 1, n, eof) => Metadata(t, i, n, eof)
           /\ \A n \in Nat, eof \in BOOLEAN : Metadata(s, 0, n + 1, eof) => Metadata(t, 0, n, eof)
           /\ \A k, z : \A i \in Nat, eof \in BOOLEAN :
                 Continues(s, i + 1, k, z, eof) => Continues(t, i, k, z, eof)
           /\ \A eof \in BOOLEAN : WellFormed(s, eof) =>
                 /\ WellFormed(t, eof) /\ Fits(s[1]) /\ Empty(s[1])
                 /\ Continues(t, 0, s[1].kind, s[1].size, eof)
<1>1. Len(s) \in Nat /\ Len(t) \in Nat /\ DOMAIN s = 1 .. Len(s) /\ DOMAIN t = 1 .. Len(t)
  OBVIOUS
<1>2. ASSUME NEW i \in Nat, i + 1 <= Len(t)
      PROVE  t[i + 1] = s[i + 1 + 1] /\ i + 1 + 1 <= Len(s)
  BY <1>1, <1>2 DEF Shift
<1>3. ASSUME NEW i \in Nat, NEW n \in Nat, NEW eof \in BOOLEAN, Metadata(s, i + 1, n, eof)
      PROVE  Metadata(t, i, n, eof)
  <2>1. \A j \in 1 .. n : i + j <= Len(t) => t[i + j].kind = "COL"
    <3> SUFFICES ASSUME NEW j \in 1 .. n, i + j <= Len(t) PROVE t[i + j].kind = "COL"
      OBVIOUS
    <3>1. i + 1 + j <= Len(s) /\ t[i + j] = s[i + j + 1] /\ i + j + 1 = i + 1 + j
      BY <1>1 DEF Shift
    <3> QED
      BY <1>3, <3>1 DEF Metadata
  <2>2. \A m \in Nat : m >= 1 /\ i + m <= Len(t) => i + 1 + m <= Len(s) /\ t[i + m] = s[i + 1 + m]
    BY <1>1 DEF Shift
  <2>3. i + n + 1 <= Len(t) => i + 1 + n + 1 <= Len(s) /\ t[i + n + 1] = s[i + 1 + n + 1]
    BY <1>1 DEF Shift
  <2>4. i + n + 2 <= Len(t) => i + 1 + n + 2 <= Len(s) /\ t[i + n + 2] = s[i + 1 + n + 2]
    BY <1>1 DEF Shift
  <2> QED
    BY <1>3, <2>1, <2>3, <2>4 DEF Metadata
<1>4. ASSUME NEW n \in Nat, NEW eof \in BOOLEAN, Metadata(s, 0, n + 1, eof)
      PROVE  Metadata(t, 0, n, eof)
  <2>1. \A j \in 1 .. n : 0 + j <= Len(t) => t[0 + j].kind = "COL"
    <3> SUFFICES ASSUME NEW j \in 1 .. n, 0 + j <= Len(t) PROVE t[0 + j].kind = "COL"
      OBVIOUS
    <3>1. 0 + (j + 1) <= Len(s) /\ t[0 + j] = s[0 + (j + 1)] /\ j + 1 \in 1 .. n + 1
      BY <1>1 DEF Shift
    <3> QED
      BY <1>4, <3>1 DEF Metadata
  <2>3. 0 + n + 1 <= Len(t) => 0 + (n + 1) + 1 <= Len(s) /\ t[0 + n + 1] = s[0 + (n + 1) + 1]
    BY <1>1 DEF Shift
  <2>4. 0 + n + 2 <= Len(t) => 0 + (n + 1) + 2 <= Len(s) /\ t[0 + n + 2] = s[0 + (n + 1) + 2]
    BY <1>1 DEF Shift
  <2> QED
    BY <1>4, <2>1, <2>3, <2>4 DEF Metadata
<1>5. ASSUME NEW i \in Nat, NEW k, NEW z, NEW eof \in BOOLEAN, Continues(s, i + 1, k, z, eof)
      PROVE  Continues(t, i, k, z, eof)
  <2>0. Len(t) + 1 = Len(s)
    BY DEF Shift
  <2>1. k \in {"OK", "ERR", "END"} => Len(t) = i
    <3>1. k \in {"OK", "ERR", "END"} => Len(s) = i + 1
      BY <1>5 DEF Continues
    <3>2. \A a, b \in Nat : a + 1 = b /\ b = i + 1 => a = i
      OBVIOUS
    <3>3. Len(t) \in Nat /\ Len(s) \in Nat
      BY <1>1
    <3> QED
      BY <2>0, <3>1, <3>2, <3>3
  <2>2. k = "HDR" => Metadata(t, i, Columns, eof)
    BY <1>3, <1>5 DEF Continues
  <2> QED
    BY <1>2, <1>5, <2>1, <2>2 DEF Continues
<1>6. ASSUME NEW eof \in BOOLEAN, WellFormed(s, eof)
      PROVE  /\ WellFormed(t, eof) /\ Fits(s[1]) /\ Empty(s[1])
             /\ Continues(t, 0, s[1].kind, s[1].size, eof)
  <2>1. ASSUME NEW i \in DOMAIN t
        PROVE  i \in Nat /\ i + 1 \in DOMAIN s /\ t[i] = s[i + 1]
    BY <1>1, <2>1 DEF Shift
  <2>2. WellFormed(t, eof)
    BY <1>5, <1>6, <2>1 DEF WellFormed
  <2>3. 1 \in DOMAIN s /\ 0 + 1 = 1
    BY <1>1 DEF Shift
  <2>4. Fits(s[1]) /\ Empty(s[1]) /\ Continues(s, 0 + 1, s[1].kind, s[1].size, eof)
    BY <1>6, <2>3 DEF WellFormed
  <2>5. Continues(t, 0, s[1].kind, s[1].size, eof)
    BY <1>5, <2>4
  <2> QED
    BY <2>2, <2>4, <2>5
<1> QED
  BY <1>3, <1>4, <1>5, <1>6

\* Two ways to write the same bytes, and what is left of them.
LEMMA Joined ==
    ASSUME NEW b \in Seq(ServerFrame), NEW o \in Seq(ServerFrame)
    PROVE  /\ b \o o \in Seq(ServerFrame) /\ Len(b \o o) = Len(b) + Len(o)
           /\ Len(b) \in Nat /\ Len(o) \in Nat
           /\ \A i \in 1 .. Len(b) : (b \o o)[i] = b[i]
           /\ \A i \in 1 .. Len(o) : (b \o o)[Len(b) + i] = o[i]
<1>1. b \o o \in Seq(ServerFrame) /\ Len(b \o o) = Len(b) + Len(o) /\ Len(b) \in Nat /\ Len(o) \in Nat
  OBVIOUS
<1>2. \A i \in 1 .. Len(b) + Len(o) : (b \o o)[i] = IF i <= Len(b) THEN b[i] ELSE o[i - Len(b)]
  OBVIOUS
<1>3. ASSUME NEW i \in 1 .. Len(b) PROVE (b \o o)[i] = b[i]
  <2>1. i \in 1 .. Len(b) + Len(o) /\ i <= Len(b)
    BY <1>1
  <2> QED
    BY <1>2, <2>1
<1>4. ASSUME NEW i \in 1 .. Len(o) PROVE (b \o o)[Len(b) + i] = o[i]
  <2>1. Len(b) + i \in 1 .. Len(b) + Len(o) /\ ~(Len(b) + i <= Len(b)) /\ Len(b) + i - Len(b) = i
    BY <1>1
  <2> QED
    BY <1>2, <2>1
<1> QED
  BY <1>1, <1>3, <1>4

LEMMA CutStream ==
    ASSUME NEW b \in Seq(ServerFrame), NEW o \in Seq(ServerFrame), NEW e, e = <<>>
    PROVE  Prefix(b \o e, b \o o)
<1>1. e \in Seq(ServerFrame) /\ Len(e) = 0
  OBVIOUS
<1>2. Len(b \o e) = Len(b)
  BY <1>1, Joined
<1>3. \A i \in 1 .. Len(b) : (b \o e)[i] = b[i]
  BY <1>1, Joined
<1>4. Len(b \o o) = Len(b) + Len(o) /\ Len(b) \in Nat /\ Len(o) \in Nat
      /\ \A i \in 1 .. Len(b) : (b \o o)[i] = b[i]
  BY Joined
<1> QED
  BY <1>2, <1>3, <1>4 DEF Prefix

LEMMA FilledStream ==
    ASSUME NEW b, NEW o \in Seq(ServerFrame), b = <<>>, NEW k \in DOMAIN o
    PROVE  LET b2 == SubSeq(o, 1, k)
               o2 == SubSeq(o, k + 1, Len(o))
           IN  /\ b2 \in Seq(ServerFrame) /\ o2 \in Seq(ServerFrame)
               /\ Prefix(b2 \o o2, b \o o) /\ Len(b2 \o o2) = Len(b \o o)
<1> DEFINE b2 == SubSeq(o, 1, k)
           o2 == SubSeq(o, k + 1, Len(o))
<1>1. Len(o) \in Nat /\ k \in 1 .. Len(o)
  OBVIOUS
<1>2. b2 \in Seq(ServerFrame) /\ Len(b2) = k /\ \A i \in 1 .. k : b2[i] = o[i]
  BY <1>1
<1>3. o2 \in Seq(ServerFrame) /\ Len(o2) = Len(o) - k
  BY <1>1
<1>4. \A i \in 1 .. Len(o) - k : o2[i] = o[k + i]
  BY <1>1
<1>5. b \in Seq(ServerFrame) /\ Len(b) = 0
  OBVIOUS
<1>6. Len(b \o o) = Len(o) /\ \A i \in 1 .. Len(o) : (b \o o)[i] = o[i]
  <2>1. Len(b \o o) = 0 + Len(o) /\ \A i \in 1 .. Len(o) : (b \o o)[0 + i] = o[i]
    BY <1>5, Joined
  <2> QED
    BY <1>1, <2>1
<1> HIDE DEF b2, o2
<1>7. Len(b2 \o o2) = Len(o)
  BY <1>1, <1>2, <1>3, Joined
<1>8. ASSUME NEW i \in 1 .. Len(o) PROVE (b2 \o o2)[i] = o[i]
  <2>1. CASE i <= k
    BY <1>1, <1>2, <1>3, <2>1, Joined
  <2>2. CASE ~(i <= k)
    <3>1. i - k \in 1 .. Len(o) - k /\ k + (i - k) = i
      BY <1>1, <2>2
    <3>2. (b2 \o o2)[k + (i - k)] = o2[i - k]
      BY <1>2, <1>3, <3>1, Joined
    <3> QED
      BY <1>4, <3>1, <3>2
  <2> QED
    BY <2>1, <2>2
<1>9. Prefix(b2 \o o2, b \o o)
  BY <1>1, <1>6, <1>7, <1>8 DEF Prefix
<1>10. /\ b2 \in Seq(ServerFrame) /\ o2 \in Seq(ServerFrame)
       /\ Prefix(b2 \o o2, b \o o) /\ Len(b2 \o o2) = Len(b \o o)
  BY <1>2, <1>3, <1>6, <1>7, <1>9
<1> QED
  BY <1>10, Zenon DEF b2, o2

LEMMA ReadStream ==
    ASSUME NEW b \in Seq(ServerFrame), NEW o \in Seq(ServerFrame), b # <<>>
    PROVE  Tail(b) \in Seq(ServerFrame) /\ Shift(Tail(b) \o o, b \o o) /\ Head(b) = (b \o o)[1]
<1> DEFINE t == Tail(b)
<1>1. Len(b) \in Nat /\ Len(b) >= 1 /\ Len(o) \in Nat
  OBVIOUS
<1>2. t \in Seq(ServerFrame) /\ Len(t) = Len(b) - 1 /\ \A i \in 1 .. Len(b) - 1 : t[i] = b[i + 1]
  BY <1>1
<1>3. Head(b) = b[1]
  OBVIOUS
<1> HIDE DEF t
<1>4. Len(t \o o) = Len(t) + Len(o) /\ Len(b \o o) = Len(b) + Len(o)
      /\ (\A i \in 1 .. Len(t) : (t \o o)[i] = t[i])
      /\ (\A i \in 1 .. Len(o) : (t \o o)[Len(t) + i] = o[i])
      /\ (\A i \in 1 .. Len(b) : (b \o o)[i] = b[i])
      /\ (\A i \in 1 .. Len(o) : (b \o o)[Len(b) + i] = o[i])
  BY <1>2, Joined
<1>5. Len(t \o o) + 1 = Len(b \o o)
  BY <1>1, <1>2, <1>4
<1>6. ASSUME NEW i \in 1 .. Len(t \o o) PROVE (t \o o)[i] = (b \o o)[i + 1]
  <2>1. CASE i <= Len(t)
    <3>1. i \in 1 .. Len(t) /\ i + 1 \in 1 .. Len(b) /\ i \in 1 .. Len(b) - 1
      BY <1>1, <1>2, <2>1
    <3> QED
      BY <1>2, <1>4, <3>1
  <2>2. CASE ~(i <= Len(t))
    <3>1. PICK j \in 1 .. Len(o) : i = Len(t) + j
      <4>1. i - Len(t) \in 1 .. Len(o) /\ i = Len(t) + (i - Len(t))
        BY <1>1, <1>2, <1>4, <2>2
      <4> QED
        BY <4>1
    <3>2. i + 1 = Len(b) + j
      BY <1>1, <1>2, <3>1
    <3>3. (t \o o)[Len(t) + j] = o[j] /\ (b \o o)[Len(b) + j] = o[j]
      BY <1>4
    <3> QED
      BY <3>1, <3>2, <3>3
  <2> QED
    BY <2>1, <2>2
<1>7. Head(b) = (b \o o)[1]
  BY <1>1, <1>3, <1>4
<1> QED
  BY <1>2, <1>5, <1>6, <1>7 DEF Shift, t

LEMMA StreamType ==
    ASSUME NEW x \in Connection, NEW n \in Socket
    PROVE  /\ x.buf \in Seq(ServerFrame) /\ n.out \in Seq(ServerFrame)
           /\ Stream(x, n) \in Seq(ServerFrame) /\ Len(Stream(x, n)) \in Nat
<1>1. x.buf \in Seq(ServerFrame) /\ n.out \in Seq(ServerFrame)
  BY DEF Connection, Socket
<1> QED
  BY <1>1, Joined DEF Stream
-----------------------------------------------------------------------------
(* Where the reader is in the answer.                                       *)

\* The server takes f for the end of a command.
Full(f) == f.last \/ f.cmd \in AuthCmds

\* A command the server answers, complete, on its way.
Answered == Sent \ {"sslRequest", "longData", "stmtClose"}
Asked(n) == \E i \in DOMAIN n.in : Full(n.in[i]) /\ n.in[i].cmd \in Answered

\* Reading the answer to a prepare; suspended between the rows of a result.
Preparing(m) ==
    \/ m.pc = "prepared"
    \/ m.pc \in {"columns", "eof"} /\ m.mode \in {"params", "prepare"}

Paused(m) == m.mc /\ (m.pc \in {"rows", "drain"} \/ (m.pc = "finish" /\ m.then = "drain"))

HandshakeReads == {"hello", "authResult", "authOK", "authKey"}

Taken(m) == IF m.got = NoPkt THEN 0 ELSE 1

\* How many packets of a prepare's answer may be left.
ToPrepare(m, eof) ==
    LET e == IF eof THEN 1 ELSE 0
    IN  CASE m.pc = "prepared" -> 2 + 2 * e + Columns
          [] m.pc = "columns" /\ m.mode = "params" -> m.left + 2 * e + Columns
          [] m.pc = "eof" /\ m.mode = "params" -> 2 * e + Columns
          [] m.pc = "columns" /\ m.mode = "prepare" -> m.left + e
          [] OTHER -> e

\* What may come in s where m is: in the answer to a prepare,
PrepareRest(m, s, eof) ==
    /\ m.part = NoPkt /\ AllPart(s)
    /\ Len(s) + Taken(m) <= ToPrepare(m, eof)
    /\ m.pc = "prepared" /\ m.got = NoPkt => (1 < Len(s) => s[1].kind # "ERR")
    /\ m.pc = "prepared" /\ m.got.kind = "ERR" => Len(s) = 0

\* in a handshake,
HandshakeRest(m, s) ==
    /\ m.part = NoPkt /\ AllPart(s)
    /\ m.got = NoPkt => IF m.pc = "authResult" THEN Len(s) <= 2 /\ (1 < Len(s) => s[1].kind = "FAST")
                                               ELSE Len(s) <= 1
    /\ m.got # NoPkt => IF m.pc = "authResult" /\ m.got.kind = "FAST" THEN Len(s) <= 1
                                                                      ELSE Len(s) = 0

\* in the answer to a ping,
PingRest(m, s) == m.part = NoPkt /\ AllPart(s) /\ Len(s) + Taken(m) <= 1

\* and among result sets: the packet read next, or what follows the one just read.
Unread(m, s, eof) ==
    /\ m.pc = "header" => HeadNext(s)
    /\ m.pc \in {"skip", "next"} => RowNext(s)
    /\ m.pc = "columns" => Metadata(s, 0, m.left, eof)
    /\ m.pc = "eof" => Metadata(s, 0, 0, TRUE)
    /\ m.pc \notin ReadPCs => IF m.rsDone THEN HeadNext(s) ELSE RowNext(s)

JustRead(m, s, eof) ==
    /\ m.pc \in {"header", "skip", "next"} => Continues(s, 0, m.got.kind, "part", eof)
    /\ m.pc = "columns" => Metadata(s, 0, m.left - 1, eof)
    /\ m.pc = "eof" => RowNext(s)

ResultRest(m, s, eof) ==
    /\ WellFormed(s, eof)
    /\ m.part # NoPkt =>
          m.pc \in {"skip", "next"} /\ m.part.kind = "ROW" /\ Continues(s, 0, "ROW", "full", eof)
    /\ m.got = NoPkt /\ m.part = NoPkt => Unread(m, s, eof)
    /\ m.got # NoPkt => JustRead(m, s, eof)

Rest(m, s, eof) ==
    CASE Preparing(m) -> PrepareRest(m, s, eof)
      [] m.pc \in HandshakeReads -> HandshakeRest(m, s)
      [] m.pc = "ok" -> PingRest(m, s)
      [] OTHER -> ResultRest(m, s, eof)

\* Whose answer is read there.
Awaits(pc, cmd) ==
    CASE pc = "ok" -> cmd = "ping"
      [] pc = "prepared" -> cmd = "prepare"
      [] pc = "header" -> cmd \in {"query", "execute", "isolation", "begin", "endTx"}
      [] pc = "authResult" -> cmd \in {"auth", "authSwitch"}
      [] pc = "authOK" -> cmd \in {"password", "encrypted"}
      [] pc = "authKey" -> cmd = "keyRequest"
      [] OTHER -> FALSE

\* Nothing of it has been read.
Start(m, x) ==
    /\ m.got = NoPkt /\ m.part = NoPkt /\ ~m.bad
    /\ m.pc \in {"ok", "prepared", "header", "authResult", "authOK", "authKey"}
    /\ m.pc \in {"ok", "prepared", "header"} => x.seq \in 1 .. MaxFrames

\* A packet that is not number q comes first.
Stray(s, q) == s[1].size = "part" /\ s[1].seq # q

\* Nobody reads: result sets may be unread, if the server announced them, but
\* their first packet is not number 1.
Resting(x, n) ==
    /\ ~Asked(n)
    /\ 1 <= Len(Stream(x, n)) => x.st = "ready" /\ x.more /\ Stray(Stream(x, n), 1)

\* The call reads its answer,
Receiving(m, x, n) ==
    /\ ~Asked(n) /\ ~IsErr(m.got) /\ ~m.bad
    /\ Numbered(Stream(x, n), x.seq, m.n)
    /\ Rest(m, Stream(x, n), ~x.deprecateEOF)
    /\ m.got # NoPkt => m.got.own = m.n
    /\ m.part # NoPkt => m.part.own = m.n
    /\ m.pc = "header" /\ m.mode = "query" =>
         IF m.got = NoPkt THEN x.seq \in 1 .. MaxFrames ELSE x.seq # 1

\* or has lost the connection,
Failing(m, x) ==
    /\ x.closed
    /\ \/ IsErr(m.got)
       \/ m.got.kind = "ERR" /\ m.pc \in {"header", "ok", "prepared"} \cup HandshakeReads

\* or the server has yet to take the command,
Waiting(m, x, n) ==
    /\ Start(m, x) /\ Len(Stream(x, n)) = 0
    /\ LET l == Len(n.in)
       IN  /\ l # 0 /\ Full(n.in[l]) /\ Awaits(m.pc, n.in[l].cmd) /\ n.in[l].own = m.n
           /\ Next8(n.in[l].seq) = x.seq
           /\ \A i \in 1 .. l - 1 : Full(n.in[i]) => n.in[i].cmd \notin Answered

\* or what an earlier call left comes first,
Mixed(m, x, n) == Start(m, x) /\ 1 <= Len(Stream(x, n)) /\ Stray(Stream(x, n), x.seq)

\* or the connection was closed under it.
Gone(m, x, n) == m.got = NoPkt /\ m.part = NoPkt /\ x.closed /\ Len(Stream(x, n)) = 0

Hearing(m, x, n) ==
    Receiving(m, x, n) \/ Failing(m, x) \/ Waiting(m, x, n) \/ Mixed(m, x, n) \/ Gone(m, x, n)

Following(m, x, n) ==
    /\ m.pc \in ReadPCs => Hearing(m, x, n)
    /\ Paused(m) /\ ~x.closed => Receiving(m, x, n) /\ (m.rsDone => x.more)
    /\ m.pc \notin ReadPCs /\ ~Paused(m) /\ ~x.closed => Resting(x, n)
    /\ m.pc = "write" /\ x.st = "ready" /\ ~x.closed =>
          /\ x.seq + m.left <= MaxFrames
          /\ 1 <= Len(Stream(x, n)) => x.seq = 0 /\ m.left = 1

\* What the call is about to write, and what holds where it is.
Manner(m) ==
    /\ m.pc \notin ReadPCs => m.part = NoPkt /\ ~m.bad /\ (m.pc # "failed" => m.got = NoPkt)
    /\ m.got # NoPkt => m.part = NoPkt
    /\ m.part = NoPkt => ~m.bad
    /\ m.mode = "query" => m.kind \in {"query", "stmtQuery"}
    /\ m.mode = "loop" => m.kind = "query"
    /\ m.pc = "skip" => m.mode \notin {"query", "loop"}
    /\ m.pc = "rows" /\ ~m.mc => m.rsDone
    /\ m.pc = "next" => m.mc /\ ~m.rsDone
    /\ m.pc = "columns" => m.left # 0
    /\ m.pc = "write" =>
          \/ Awaits(m.then, m.cmd)
          \/ <<m.then, m.cmd>> \in {<<"tls", "sslRequest">>, <<"execute", "longData">>,
                                    <<"release", "stmtClose">>}
    /\ m.pc = "write" /\ m.then \in HandshakePCs => m.left = 1

\* The bytes of connection c are accounted for.
Accounted(c) ==
    conn[c].st \in {"dialled", "ready"} /\ ~conn[c].long =>
        IF c = me.c THEN Following(me, conn[c], net[c])
                    ELSE conn[c].closed \/ Resting(conn[c], net[c])

ReplyInv == SessionInv /\ Manner(me) /\ \A c \in Conn : Accounted(c)
-----------------------------------------------------------------------------
LEMMA RestKinds ==
    /\ \A m : Preparing(m) => m.pc \in {"prepared", "columns", "eof"}
    /\ \A m, s, eof : Preparing(m) => (Rest(m, s, eof) <=> PrepareRest(m, s, eof))
    /\ \A m, s, eof : m.pc \in HandshakeReads => (Rest(m, s, eof) <=> HandshakeRest(m, s))
    /\ \A m, s, eof : m.pc = "ok" => (Rest(m, s, eof) <=> PingRest(m, s))
    /\ \A m, s, eof : ~Preparing(m) /\ m.pc \notin HandshakeReads /\ m.pc # "ok" =>
          (Rest(m, s, eof) <=> ResultRest(m, s, eof))
<1>1. \A m : Preparing(m) => m.pc \in {"prepared", "columns", "eof"}
  BY DEF Preparing
<1>2. ASSUME NEW m, NEW s, NEW eof
      PROVE  /\ Preparing(m) => (Rest(m, s, eof) <=> PrepareRest(m, s, eof))
             /\ m.pc \in HandshakeReads => (Rest(m, s, eof) <=> HandshakeRest(m, s))
             /\ m.pc = "ok" => (Rest(m, s, eof) <=> PingRest(m, s))
             /\ ~Preparing(m) /\ m.pc \notin HandshakeReads /\ m.pc # "ok" =>
                   (Rest(m, s, eof) <=> ResultRest(m, s, eof))
  <2>1. Preparing(m) => m.pc \notin HandshakeReads /\ m.pc # "ok"
    BY <1>1 DEF HandshakeReads
  <2>2. m.pc \in HandshakeReads => m.pc # "ok"
    BY DEF HandshakeReads
  <2>3. CASE Preparing(m)
    BY <2>1, <2>3 DEF Rest
  <2>4. CASE m.pc \in HandshakeReads
    BY <2>1, <2>2, <2>4 DEF Rest
  <2>5. CASE m.pc = "ok"
    BY <2>1, <2>2, <2>5 DEF Rest
  <2>6. CASE ~Preparing(m) /\ m.pc \notin HandshakeReads /\ m.pc # "ok"
    BY <2>6 DEF Rest
  <2> QED
    BY <2>1, <2>2, <2>3, <2>4, <2>5, <2>6
<1> QED
  BY <1>1, <1>2

LEMMA ToPrepareType ==
    ASSUME NEW m, m.left \in Nat, NEW eof \in BOOLEAN
    PROVE  ToPrepare(m, eof) \in Nat
BY SMTT(60) DEF ToPrepare

\* Less of the same is no surprise.
LEMMA RestPrefix ==
    ASSUME NEW s \in Seq(ServerFrame), NEW t \in Seq(ServerFrame), Prefix(t, s),
           NEW m \in Caller, m.pc = "columns" => m.left # 0, NEW eof \in BOOLEAN, Rest(m, s, eof)
    PROVE  Rest(m, t, eof)
<1>1. Len(s) \in Nat /\ Len(t) \in Nat /\ Len(t) <= Len(s) /\ (1 <= Len(t) => t[1] = s[1])
  BY DEF Prefix
<1>2. m.left \in Nat
  BY DEF Caller
<1>3. AllPart(s) => AllPart(t)
  BY PrefixFrames
<1>4. CASE Preparing(m)
  <2>1. PrepareRest(m, s, eof)
    BY <1>4, RestKinds
  <2>2. PrepareRest(m, t, eof)
    <3> DEFINE k == ToPrepare(m, eof)
               w == Taken(m)
    <3>1. k \in Nat /\ w \in Nat
      BY <1>2, ToPrepareType DEF Taken
    <3>2. Len(s) + w <= k
      BY <2>1 DEF PrepareRest
    <3> HIDE DEF k, w
    <3>3. Len(t) + w <= k
      BY <1>1, <3>1, <3>2
    <3>4. m.pc = "prepared" /\ m.got.kind = "ERR" => Len(t) = 0
      BY <1>1, <2>1 DEF PrepareRest
    <3>5. m.pc = "prepared" /\ m.got = NoPkt => (1 < Len(t) => t[1].kind # "ERR")
      BY <1>1, <2>1 DEF PrepareRest
    <3> QED
      BY <1>3, <2>1, <3>3, <3>4, <3>5 DEF PrepareRest, k, w
  <2> QED
    BY <1>4, <2>2, RestKinds
<1>5. CASE m.pc \in HandshakeReads
  <2>1. HandshakeRest(m, s)
    BY <1>5, RestKinds
  <2>2. HandshakeRest(m, t)
    BY <1>1, <1>3, <2>1 DEF HandshakeRest
  <2> QED
    BY <1>5, <2>2, RestKinds
<1>6. CASE m.pc = "ok"
  <2>1. PingRest(m, s)
    BY <1>6, RestKinds
  <2>2. PingRest(m, t)
    BY <1>1, <1>3, <2>1 DEF PingRest, Taken
  <2> QED
    BY <1>6, <2>2, RestKinds
<1>7. CASE ~Preparing(m) /\ m.pc \notin HandshakeReads /\ m.pc # "ok"
  <2>1. ResultRest(m, s, eof)
    BY <1>7, RestKinds
  <2>2. WellFormed(t, eof)
    BY <2>1, PrefixGrammar DEF ResultRest
  <2>3. m.part # NoPkt => m.pc \in {"skip", "next"} /\ m.part.kind = "ROW" /\ Continues(t, 0, "ROW", "full", eof)
    BY <1>1, <2>1, PrefixGrammar DEF ResultRest
  <2>4. Unread(m, s, eof) => Unread(m, t, eof)
    <3>1. (HeadNext(s) => HeadNext(t)) /\ (RowNext(s) => RowNext(t))
      BY PrefixFrames
    <3>2. m.pc = "columns" /\ Metadata(s, 0, m.left, eof) => Metadata(t, 0, m.left, eof)
      BY <1>2, PrefixGrammar
    <3>3. Metadata(s, 0, 0, TRUE) => Metadata(t, 0, 0, TRUE)
      BY PrefixGrammar
    <3> QED
      BY <3>1, <3>2, <3>3 DEF Unread
  <2>5. JustRead(m, s, eof) => JustRead(m, t, eof)
    <3>1. RowNext(s) => RowNext(t)
      BY PrefixFrames
    <3>2. m.pc = "columns" /\ Metadata(s, 0, m.left - 1, eof) => Metadata(t, 0, m.left - 1, eof)
      <4>1. m.pc = "columns" => m.left - 1 \in Nat
        BY <1>2
      <4> QED
        BY <4>1, PrefixGrammar
    <3>3. 0 \in 0 .. Len(t)
      BY <1>1
    <3>4. Continues(s, 0, m.got.kind, "part", eof) => Continues(t, 0, m.got.kind, "part", eof)
      BY <3>3, PrefixGrammar
    <3> QED
      BY <3>1, <3>2, <3>4 DEF JustRead
  <2>6. ResultRest(m, t, eof)
    BY <2>1, <2>2, <2>3, <2>4, <2>5 DEF ResultRest
  <2> QED
    BY <1>7, <2>6, RestKinds
<1> QED
  BY <1>4, <1>5, <1>6, <1>7
\* A frame is read where m is, of the packet m2 has then, or has begun.
Reads(m, m2, f) ==
    LET kind == IF m.part = NoPkt THEN f.kind ELSE m.part.kind
    IN  /\ m2.pc = m.pc /\ m2.mode = m.mode /\ m2.left = m.left
        /\ \/ /\ f.size # "full"
              /\ m2.got # NoPkt /\ m2.got.kind = kind /\ m2.part = NoPkt
           \/ /\ f.size = "full"
              /\ m2.got = NoPkt /\ m2.part # NoPkt /\ m2.part.kind = kind

LEMMA RestNeverEmpty ==
    ASSUME NEW s \in Seq(ServerFrame), NEW t \in Seq(ServerFrame), Shift(t, s), NEW m,
           NEW eof \in BOOLEAN, m.pc \in ReadPCs, Rest(m, s, eof),
           m.got = NoPkt, m.part = NoPkt, m.pc = "columns" => m.left \in Nat \ {0}
    PROVE  s[1].size = "part" \/ (s[1].size = "full" /\ m.pc \in {"skip", "next"})
<1>1. 1 <= Len(s) /\ s[1] \in ServerFrame
  BY ShiftFrames
<1>2. AllPart(s) => s[1].size = "part"
  BY ShiftFrames
<1>3. CASE ~Preparing(m) /\ m.pc \notin HandshakeReads /\ m.pc # "ok"
  <2>1. ResultRest(m, s, eof)
    BY <1>3, RestKinds
  <2>2. Fits(s[1]) /\ Empty(s[1])
    BY <2>1, ShiftGrammar DEF ResultRest
  <2>3. Unread(m, s, eof)
    BY <2>1 DEF ResultRest
  <2>4. m.pc = "columns" => s[1].kind = "COL"
    <3>1. m.pc = "columns" => 1 \in 1 .. m.left /\ 0 + 1 <= Len(s) /\ 0 + 1 = 1
      BY <1>1
    <3> QED
      BY <2>3, <3>1 DEF Unread, Metadata
  <2>5. m.pc = "eof" => s[1].kind = "EOF"
    BY <1>1, <2>3 DEF Unread, Metadata
  <2>6. m.pc \in {"header", "skip", "next"} => s[1].kind \in HeadKinds \cup RowKinds
    BY <1>1, <2>3 DEF Unread, HeadNext, RowNext
  <2>7. m.pc = "header" => s[1].kind # "ROW"
    BY <1>1, <2>3 DEF Unread, HeadNext, HeadKinds
  <2>8. m.pc \in {"header", "skip", "next", "columns", "eof"}
    BY <1>3 DEF ReadPCs, HandshakeReads, Preparing
  <2>9. s[1].kind # "CONT"
    BY <2>4, <2>5, <2>6, <2>8 DEF HeadKinds, RowKinds
  <2>10. s[1].size # "zero"
    BY <2>2, <2>9 DEF Empty
  <2>11. s[1].size = "full" => s[1].kind = "ROW"
    BY <2>2, <2>9 DEF Fits
  <2>12. s[1].kind = "ROW" => m.pc \in {"skip", "next"}
    BY <2>4, <2>5, <2>7, <2>8
  <2> QED
    BY <1>1, <2>10, <2>11, <2>12 DEF ServerFrame, Size
<1>4. CASE Preparing(m) \/ m.pc \in HandshakeReads \/ m.pc = "ok"
  <2>1. AllPart(s)
    BY <1>4, RestKinds DEF PrepareRest, HandshakeRest, PingRest
  <2> QED
    BY <1>2, <2>1
<1> QED
  BY <1>3, <1>4

LEMMA RestRead ==
    ASSUME NEW s \in Seq(ServerFrame), NEW t \in Seq(ServerFrame), Shift(t, s),
           NEW m \in Caller, NEW m2, NEW eof \in BOOLEAN, Rest(m, s, eof), m.pc \in ReadPCs,
           m.got = NoPkt, m.pc = "columns" => m.left # 0, Reads(m, m2, s[1])
    PROVE  Rest(m2, t, eof) /\ (m.part # NoPkt => m.part.kind = "ROW")
<1>1. Len(s) \in Nat /\ Len(t) \in Nat /\ Len(t) + 1 = Len(s) /\ 1 <= Len(s) /\ s[1] \in ServerFrame
  BY ShiftFrames DEF Shift
<1>2. AllPart(s) => AllPart(t) /\ s[1].size = "part"
  BY ShiftFrames
<1>3. m2.pc = m.pc /\ m2.mode = m.mode /\ m2.left = m.left /\ m.left \in Nat /\ (Preparing(m2) <=> Preparing(m))
  BY DEF Reads, Caller, Preparing
<1>4. CASE Preparing(m)
  <2>1. PrepareRest(m, s, eof)
    BY <1>4, RestKinds
  <2>2. m2.got # NoPkt /\ m2.got.kind = s[1].kind /\ m2.part = NoPkt /\ AllPart(t)
    BY <1>2, <2>1 DEF PrepareRest, Reads
  <2>3. Len(t) + 1 <= ToPrepare(m, eof)
    BY <1>1, <2>1 DEF PrepareRest, Taken
  <2>4. ToPrepare(m2, eof) = ToPrepare(m, eof)
    BY <1>3 DEF ToPrepare
  <2>5. m2.pc = "prepared" /\ m2.got.kind = "ERR" => Len(t) = 0
    BY <1>1, <1>3, <2>1, <2>2 DEF PrepareRest
  <2>6. PrepareRest(m2, t, eof)
    BY <2>2, <2>3, <2>4, <2>5 DEF PrepareRest, Taken
  <2> QED
    BY <1>3, <1>4, <2>1, <2>6, RestKinds DEF PrepareRest
<1>5. CASE m.pc \in HandshakeReads
  <2>1. HandshakeRest(m, s)
    BY <1>5, RestKinds
  <2>2. m2.got # NoPkt /\ m2.got.kind = s[1].kind /\ m2.part = NoPkt /\ AllPart(t)
    BY <1>2, <2>1 DEF HandshakeRest, Reads
  <2>3. IF m2.pc = "authResult" /\ m2.got.kind = "FAST" THEN Len(t) <= 1 ELSE Len(t) = 0
    BY <1>1, <1>3, <2>1, <2>2 DEF HandshakeRest
  <2>4. HandshakeRest(m2, t)
    BY <2>2, <2>3 DEF HandshakeRest
  <2> QED
    BY <1>3, <1>5, <2>1, <2>4, RestKinds DEF HandshakeRest
<1>6. CASE m.pc = "ok"
  <2>1. PingRest(m, s)
    BY <1>6, RestKinds
  <2>2. m2.got # NoPkt /\ m2.part = NoPkt /\ AllPart(t)
    BY <1>2, <2>1 DEF PingRest, Reads
  <2>3. PingRest(m2, t)
    BY <1>1, <2>1, <2>2 DEF PingRest, Taken
  <2> QED
    BY <1>3, <1>6, <2>1, <2>3, RestKinds DEF PingRest
<1>7. CASE ~Preparing(m) /\ m.pc \notin HandshakeReads /\ m.pc # "ok"
  <2>1. ResultRest(m, s, eof)
    BY <1>7, RestKinds
  <2>2. WellFormed(t, eof) /\ Continues(t, 0, s[1].kind, s[1].size, eof)
    BY <2>1, ShiftGrammar DEF ResultRest
  <2>3. CASE m.part = NoPkt
    <3>1. Unread(m, s, eof)
      BY <2>1, <2>3 DEF ResultRest
    <3>2. s[1].size = "part" \/ (s[1].size = "full" /\ m.pc \in {"skip", "next"})
      BY <1>3, <2>3, RestNeverEmpty
    <3>3. CASE s[1].size = "part"
      <4>1. m2.got # NoPkt /\ m2.got.kind = s[1].kind /\ m2.part = NoPkt
        BY <2>3, <3>3 DEF Reads
      <4>2. m.pc = "columns" => Metadata(t, 0, m.left - 1, eof)
        <5>1. m.pc = "columns" => Metadata(s, 0, m.left - 1 + 1, eof) /\ m.left - 1 \in Nat
          <6>1. m.pc = "columns" => m.left - 1 \in Nat /\ m.left - 1 + 1 = m.left
            BY <1>3
          <6> QED
            BY <3>1, <6>1 DEF Unread
        <5> QED
          BY <5>1, ShiftGrammar
      <4>3. m.pc = "eof" => RowNext(t)
        <5>1. 1 <= Len(t) => t[1] = s[1 + 1] /\ 0 + 0 + 2 <= Len(s)
          BY <1>1 DEF Shift
        <5>2. m.pc = "eof" => (0 + 0 + 2 <= Len(s) => s[0 + 0 + 2].kind \in RowKinds)
          BY <3>1 DEF Unread, Metadata
        <5> QED
          BY <5>1, <5>2 DEF RowNext
      <4>4. JustRead(m2, t, eof)
        BY <1>3, <2>2, <3>3, <4>1, <4>2, <4>3 DEF JustRead
      <4>5. ResultRest(m2, t, eof)
        BY <2>2, <4>1, <4>4 DEF ResultRest
      <4> QED
        BY <1>3, <1>7, <2>3, <4>5, RestKinds
    <3>4. CASE s[1].size = "full" /\ m.pc \in {"skip", "next"}
      <4>1. m2.got = NoPkt /\ m2.part # NoPkt /\ m2.part.kind = s[1].kind
        BY <2>3, <3>4 DEF Reads
      <4>2. s[1].kind = "ROW"
        <5>1. Fits(s[1])
          BY <2>1, ShiftGrammar DEF ResultRest
        <5>2. s[1].kind \in RowKinds
          BY <1>1, <3>1, <3>4 DEF Unread, RowNext
        <5> QED
          BY <3>4, <5>1, <5>2 DEF Fits, RowKinds
      <4>3. ResultRest(m2, t, eof)
        BY <1>3, <2>2, <3>4, <4>1, <4>2 DEF ResultRest
      <4> QED
        BY <1>3, <1>7, <2>3, <4>3, RestKinds
    <3> QED
      BY <3>2, <3>3, <3>4
  <2>4. CASE m.part # NoPkt
    <3>1. m.pc \in {"skip", "next"} /\ m.part.kind = "ROW" /\ s[1].kind = "CONT"
      BY <1>1, <2>1, <2>4 DEF ResultRest, Continues
    <3>2. Continues(t, 0, "ROW", s[1].size, eof)
      BY <2>2, <3>1 DEF Continues
    <3>3. CASE s[1].size = "full"
      <4>1. m2.got = NoPkt /\ m2.part # NoPkt /\ m2.part.kind = "ROW"
        BY <2>4, <3>1, <3>3 DEF Reads
      <4>2. ResultRest(m2, t, eof)
        BY <1>3, <2>2, <3>1, <3>2, <3>3, <4>1 DEF ResultRest
      <4> QED
        BY <1>3, <1>7, <3>1, <4>2, RestKinds
    <3>4. CASE s[1].size # "full"
      <4>1. m2.got # NoPkt /\ m2.part = NoPkt /\ m2.got.kind = "ROW"
        BY <2>4, <3>1, <3>4 DEF Reads
      <4>2. Continues(t, 0, "ROW", "part", eof)
        BY <3>2, <3>4 DEF Continues
      <4>3. JustRead(m2, t, eof)
        BY <1>3, <3>1, <4>1, <4>2 DEF JustRead
      <4>4. ResultRest(m2, t, eof)
        BY <2>2, <4>1, <4>3 DEF ResultRest
      <4> QED
        BY <1>3, <1>7, <3>1, <4>4, RestKinds
    <3> QED
      BY <3>3, <3>4
  <2> QED
    BY <2>3, <2>4
<1> QED
  BY <1>4, <1>5, <1>6, <1>7
-----------------------------------------------------------------------------
LEMMA NothingUnread ==
    ASSUME NEW s \in Seq(ServerFrame), Len(s) = 0
    PROVE  /\ \A q, n : Numbered(s, q, n)
           /\ HeadNext(s) /\ RowNext(s) /\ AllPart(s)
           /\ \A eof \in BOOLEAN : WellFormed(s, eof)
           /\ \A n \in Nat, eof \in BOOLEAN : Metadata(s, 0, n, eof)
<1>1. DOMAIN s = {} /\ ~(1 <= Len(s))
  OBVIOUS
<1>2. \A q, n : Numbered(s, q, n)
  BY DEF Numbered
<1>3. HeadNext(s) /\ RowNext(s) /\ AllPart(s)
  BY DEF HeadNext, RowNext, AllPart
<1>4. \A eof \in BOOLEAN : WellFormed(s, eof)
  BY <1>1 DEF WellFormed
<1>5. \A n \in Nat, eof \in BOOLEAN : Metadata(s, 0, n, eof)
  BY DEF Metadata
<1> QED
  BY <1>2, <1>3, <1>4, <1>5

\* Nothing can be wrong with nothing.
LEMMA RestNothing ==
    ASSUME NEW s \in Seq(ServerFrame), Len(s) = 0, NEW m \in Caller,
           m.got = NoPkt, m.part = NoPkt, NEW eof \in BOOLEAN
    PROVE  Rest(m, s, eof)
<1>1. m.left \in Nat
  BY DEF Caller
<1>2. HeadNext(s) /\ RowNext(s) /\ AllPart(s) /\ WellFormed(s, eof)
  BY NothingUnread
<1>7. Metadata(s, 0, m.left, eof)
  BY <1>1, NothingUnread
<1>8. Metadata(s, 0, 0, TRUE)
  BY DEF Metadata
<1>3. PrepareRest(m, s, eof)
  <2>1. ToPrepare(m, eof) \in Nat
    BY <1>1, ToPrepareType
  <2> QED
    BY <1>2, <2>1 DEF PrepareRest, Taken, NoPkt
<1>4. HandshakeRest(m, s)
  BY <1>2 DEF HandshakeRest
<1>5. PingRest(m, s)
  BY <1>2 DEF PingRest, Taken
<1>6. ResultRest(m, s, eof)
  BY <1>2, <1>7, <1>8 DEF ResultRest, Unread
<1> QED
  BY <1>3, <1>4, <1>5, <1>6, RestKinds

\* From x and n to y and p a connection is left alone but for bytes that arrive,
\* or do not.
Lull(x, n, y, p) ==
    /\ Prefix(Stream(y, p), Stream(x, n))
    /\ Len(Stream(y, p)) = Len(Stream(x, n)) \/ y.closed \/ p.in = <<>>
    /\ p.in \in {n.in, <<>>}
    /\ y.seq = x.seq /\ y.deprecateEOF = x.deprecateEOF /\ y.more = x.more
    /\ y.st = x.st /\ y.long = x.long
    /\ x.closed => y.closed

LEMMA LullStream ==
    ASSUME NEW x \in Connection, NEW n \in Socket, NEW y \in Connection, NEW p \in Socket,
           Lull(x, n, y, p)
    PROVE  /\ Stream(x, n) \in Seq(ServerFrame) /\ Stream(y, p) \in Seq(ServerFrame)
           /\ Len(Stream(x, n)) \in Nat /\ Len(Stream(y, p)) \in Nat
           /\ Len(Stream(y, p)) <= Len(Stream(x, n))
           /\ 1 <= Len(Stream(y, p)) => 1 <= Len(Stream(x, n)) /\ Stream(y, p)[1] = Stream(x, n)[1]
           /\ Asked(p) => Asked(n)
<1>1. Stream(x, n) \in Seq(ServerFrame) /\ Len(Stream(x, n)) \in Nat
  BY StreamType
<1>2. Stream(y, p) \in Seq(ServerFrame) /\ Len(Stream(y, p)) \in Nat
  BY StreamType
<1>3. Asked(p) => Asked(n)
  <2>1. DOMAIN p.in = {} \/ p.in = n.in
    BY DEF Lull
  <2> QED
    BY <2>1 DEF Asked
<1>4. Prefix(Stream(y, p), Stream(x, n))
  BY DEF Lull
<1> QED
  BY <1>1, <1>2, <1>3, <1>4 DEF Prefix

LEMMA LullResting ==
    ASSUME NEW x \in Connection, NEW n \in Socket, NEW y \in Connection, NEW p \in Socket,
           Lull(x, n, y, p), Resting(x, n)
    PROVE  Resting(y, p)
<1>1. ~Asked(p)
  BY LullStream DEF Resting
<1>2. 1 <= Len(Stream(y, p)) => 1 <= Len(Stream(x, n)) /\ Stream(y, p)[1] = Stream(x, n)[1]
  BY LullStream
<1>3. y.more = x.more /\ y.st = x.st
  BY DEF Lull
<1> QED
  BY <1>1, <1>2, <1>3 DEF Resting, Stray

LEMMA LullReceiving ==
    ASSUME NEW x \in Connection, NEW n \in Socket, NEW y \in Connection, NEW p \in Socket,
           Lull(x, n, y, p), NEW m \in Caller, Manner(m), Receiving(m, x, n)
    PROVE  Receiving(m, y, p)
<1> DEFINE s == Stream(x, n)
           t == Stream(y, p)
           eof == ~x.deprecateEOF
<1>1. s \in Seq(ServerFrame) /\ t \in Seq(ServerFrame) /\ ~Asked(p) /\ Prefix(t, s)
  BY LullStream DEF Lull, Receiving
<1>2. eof \in BOOLEAN
  OBVIOUS
<1>3. y.seq = x.seq /\ eof = ~y.deprecateEOF
  BY DEF Lull
<1>4. Numbered(s, x.seq, m.n) /\ Rest(m, s, eof)
  BY DEF Receiving
<1> HIDE DEF s, t, eof
<1>5. Numbered(t, x.seq, m.n)
  BY <1>1, <1>4, PrefixFrames
<1>6. Rest(m, t, eof)
  BY <1>1, <1>2, <1>4, RestPrefix DEF Manner
<1> QED
  BY <1>1, <1>3, <1>5, <1>6 DEF Receiving, t

\* A server that is gone never answers.
LEMMA NothingComes ==
    ASSUME NEW x \in Connection, NEW n \in Socket, NEW m \in Caller,
           Start(m, x), Len(Stream(x, n)) = 0, ~Asked(n)
    PROVE  Receiving(m, x, n)
<1> DEFINE s == Stream(x, n)
           eof == ~x.deprecateEOF
<1>1. s \in Seq(ServerFrame) /\ Len(s) = 0 /\ eof \in BOOLEAN
  BY StreamType
<1>2. m.got = NoPkt /\ m.part = NoPkt
  BY DEF Start
<1> HIDE DEF s, eof
<1>3. Rest(m, s, eof) /\ Numbered(s, x.seq, m.n)
  BY <1>1, <1>2, RestNothing, NothingUnread
<1>4. ~IsErr(m.got)
  BY <1>2 DEF NoPkt, IsErr, Errors
<1> QED
  BY <1>3, <1>4 DEF Receiving, Start, s, eof

LEMMA LullHearing ==
    ASSUME NEW x \in Connection, NEW n \in Socket, NEW y \in Connection, NEW p \in Socket,
           Lull(x, n, y, p), NEW m \in Caller, Manner(m), Hearing(m, x, n)
    PROVE  Hearing(m, y, p)
<1>1. /\ Len(Stream(x, n)) \in Nat /\ Len(Stream(y, p)) \in Nat /\ Len(Stream(y, p)) <= Len(Stream(x, n))
      /\ 1 <= Len(Stream(y, p)) => 1 <= Len(Stream(x, n)) /\ Stream(y, p)[1] = Stream(x, n)[1]
      /\ Asked(p) => Asked(n)
  BY LullStream
<1>2. /\ y.seq = x.seq /\ (x.closed => y.closed) /\ p.in \in {n.in, <<>>}
      /\ Len(Stream(y, p)) = Len(Stream(x, n)) \/ y.closed \/ p.in = <<>>
  BY DEF Lull
<1>3. Start(m, x) => Start(m, y)
  BY <1>2 DEF Start
<1>4. p.in = <<>> => ~Asked(p)
  BY DEF Asked
<1>5. CASE Receiving(m, x, n)
  BY <1>5, LullReceiving DEF Hearing
<1>6. CASE Failing(m, x)
  BY <1>2, <1>6 DEF Failing, Hearing
<1>7. CASE Waiting(m, x, n)
  <2>1. Start(m, y) /\ Len(Stream(y, p)) = 0
    BY <1>1, <1>3, <1>7 DEF Waiting
  <2>2. CASE p.in = <<>>
    BY <1>4, <2>1, <2>2, NothingComes DEF Hearing
  <2>3. CASE p.in = n.in
    <3>1. Waiting(m, y, p)
      BY <1>2, <1>7, <2>1, <2>3 DEF Waiting
    <3> QED
      BY <3>1 DEF Hearing
  <2> QED
    BY <1>2, <2>2, <2>3
<1>8. CASE Mixed(m, x, n)
  <2>1. Start(m, y)
    BY <1>3, <1>8 DEF Mixed
  <2>2. CASE 1 <= Len(Stream(y, p))
    <3>1. Mixed(m, y, p)
      BY <1>1, <1>2, <1>8, <2>1, <2>2 DEF Mixed, Stray
    <3> QED
      BY <3>1 DEF Hearing
  <2>3. CASE Len(Stream(y, p)) = 0
    <3>1. y.closed \/ p.in = <<>>
      BY <1>2, <1>8, <2>3 DEF Mixed
    <3>2. CASE p.in = <<>>
      BY <1>4, <2>1, <2>3, <3>2, NothingComes DEF Hearing
    <3>3. CASE y.closed
      BY <2>1, <2>3, <3>3 DEF Hearing, Gone, Start
    <3> QED
      BY <3>1, <3>2, <3>3
  <2> QED
    BY <1>1, <2>2, <2>3
<1>9. CASE Gone(m, x, n)
  BY <1>1, <1>2, <1>9 DEF Gone, Hearing
<1> QED
  BY <1>5, <1>6, <1>7, <1>8, <1>9 DEF Hearing

LEMMA LullFollowing ==
    ASSUME NEW x \in Connection, NEW n \in Socket, NEW y \in Connection, NEW p \in Socket,
           Lull(x, n, y, p), NEW m \in Caller, Manner(m), Following(m, x, n)
    PROVE  Following(m, y, p)
<1>1. /\ y.seq = x.seq /\ y.st = x.st /\ y.more = x.more /\ (x.closed => y.closed)
  BY DEF Lull
<1>2. m.pc \in ReadPCs => Hearing(m, y, p)
  BY LullHearing DEF Following
<1>3. Paused(m) /\ ~y.closed => Receiving(m, y, p) /\ (m.rsDone => y.more)
  BY <1>1, LullReceiving DEF Following
<1>4. m.pc \notin ReadPCs /\ ~Paused(m) /\ ~y.closed => Resting(y, p)
  BY <1>1, LullResting DEF Following
<1>5. 1 <= Len(Stream(y, p)) => 1 <= Len(Stream(x, n))
  BY LullStream
<1>6. m.pc = "write" /\ y.st = "ready" /\ ~y.closed =>
          /\ y.seq + m.left <= MaxFrames
          /\ 1 <= Len(Stream(y, p)) => y.seq = 0 /\ m.left = 1
  BY <1>1, <1>5 DEF Following
<1> QED
  BY <1>2, <1>3, <1>4, <1>6 DEF Following
-----------------------------------------------------------------------------
\* Nothing but connection c is touched.
Elsewhere(c) == \A d \in Conn : d # c => conn'[d] = conn[d] /\ net'[d] = net[d]

LEMMA OneAccounted ==
    ASSUME ReplyInv, NEW c \in Conn, Elsewhere(c),
           \A d \in Conn : d # c => (d = me'.c <=> d = me.c), me.c \in Conn \ {c} => me' = me,
           Accounted(c)'
    PROVE  \A d \in Conn : Accounted(d)'
<1>1. ASSUME NEW d \in Conn, d # c PROVE Accounted(d)'
  <2>1. conn'[d] = conn[d] /\ net'[d] = net[d] /\ (d = me'.c <=> d = me.c) /\ (d = me.c => me' = me)
    BY <1>1 DEF Elsewhere
  <2>2. Accounted(d)
    BY DEF ReplyInv
  <2>3. CASE d = me.c
    BY <2>1, <2>2, <2>3 DEF Accounted
  <2>4. CASE d # me.c
    BY <2>1, <2>2, <2>4 DEF Accounted
  <2> QED
    BY <2>3, <2>4
<1> QED
  BY <1>1

LEMMA LullAccounted ==
    ASSUME ReplyInv, TypeOK', NEW c \in Conn, Elsewhere(c), UNCHANGED me,
           Lull(conn[c], net[c], conn'[c], net'[c])
    PROVE  Manner(me') /\ \A d \in Conn : Accounted(d)'
<1>1. /\ conn[c] \in Connection /\ net[c] \in Socket /\ conn'[c] \in Connection /\ net'[c] \in Socket
      /\ me \in Caller
  BY DEF ReplyInv, SessionInv, OnceInv, OwnInv, TypeOK
<1>2. Manner(me) /\ Manner(me') /\ Accounted(c)
  BY DEF ReplyInv
<1>3. conn'[c].st = conn[c].st /\ conn'[c].long = conn[c].long /\ (conn[c].closed => conn'[c].closed)
  BY DEF Lull
<1>4. Accounted(c)'
  <2>1. Following(me, conn[c], net[c]) => Following(me, conn'[c], net'[c])
    BY <1>1, <1>2, LullFollowing
  <2>2. Resting(conn[c], net[c]) => Resting(conn'[c], net'[c])
    BY <1>1, LullResting
  <2> QED
    BY <1>2, <1>3, <2>1, <2>2 DEF Accounted
<1> QED
  BY <1>2, <1>4, OneAccounted

LEMMA PrefixItself == \A s : Len(s) \in Nat => Prefix(s, s)
BY DEF Prefix

\* The connection is the same but for its watcher, and may be closed.
LEMMA WatchLull ==
    ASSUME NEW x \in Connection, NEW n \in Socket, NEW y \in Connection, NEW p \in Socket,
           y.buf = x.buf, y.seq = x.seq, y.deprecateEOF = x.deprecateEOF, y.more = x.more,
           y.st = x.st, y.long = x.long, x.closed => y.closed, p.in = n.in \/ p.in = <<>>,
           p.out = n.out \/ (p.out = <<>> /\ (y.closed \/ p.in = <<>>))
    PROVE  Lull(x, n, y, p)
<1>1. x.buf \in Seq(ServerFrame) /\ n.out \in Seq(ServerFrame) /\ p.out \in Seq(ServerFrame)
      /\ Len(Stream(x, n)) \in Nat
  BY StreamType
<1>2. CASE p.out = n.out
  <2>1. Stream(y, p) = Stream(x, n)
    BY <1>2 DEF Stream
  <2>2. Prefix(Stream(y, p), Stream(x, n)) /\ Len(Stream(y, p)) = Len(Stream(x, n))
    BY <1>1, <2>1, PrefixItself
  <2> QED
    BY <2>2 DEF Lull
<1>3. CASE p.out = <<>> /\ (y.closed \/ p.in = <<>>)
  <2>1. Prefix(Stream(y, p), Stream(x, n))
    BY <1>1, <1>3, CutStream DEF Stream
  <2> QED
    BY <1>3, <2>1 DEF Lull
<1> QED
  BY <1>2, <1>3

LEMMA CloseLull ==
    ASSUME TypeOK, NEW c \in Conn, Cleanup(c)
    PROVE  /\ Elsewhere(c) /\ conn'[c].closed = TRUE /\ Lull(conn[c], net[c], conn'[c], net'[c])
           /\ conn'[c] \in Connection /\ net'[c] \in Socket
<1> DEFINE y == conn[c]
           x == [y EXCEPT !.closed = TRUE]
           n == net[c]
           s == <<>>
           m == [n EXCEPT !.out = s]
<1>1. y \in Connection /\ n \in Socket
  BY DEF TypeOK
<1>2. conn' = [conn EXCEPT ![c] = x] /\ net' = [net EXCEPT ![c] = m]
  BY DEF Cleanup, CloseNet
<1>3. s \in Seq(ServerFrame) /\ s = <<>>
  OBVIOUS
<1> HIDE DEF y, n, s
<1>4. /\ x.st = y.st /\ x.buf = y.buf /\ x.seq = y.seq /\ x.deprecateEOF = y.deprecateEOF
      /\ x.more = y.more /\ x.long = y.long /\ x.closed = TRUE /\ m.in = n.in /\ m.out = s
  BY <1>1 DEF Connection, Socket
<1>5. x \in Connection /\ m \in Socket
  BY <1>1, <1>3 DEF Connection, Socket
<1> HIDE DEF x, m
<1>6. Lull(y, n, x, m)
  BY <1>1, <1>3, <1>4, <1>5, WatchLull
<1>7. conn'[c] = x /\ net'[c] = m /\ \A d \in Conn : d # c => conn'[d] = conn[d] /\ net'[d] = net[d]
  BY <1>2 DEF TypeOK
<1> QED
  BY <1>4, <1>5, <1>6, <1>7 DEF Elsewhere, y, n

LEMMA WatcherAccounted ==
    ASSUME ReplyInv, TypeOK', NEW c \in Conn, WatcherStep(c)
    PROVE  Manner(me') /\ \A d \in Conn : Accounted(d)'
<1>1. TypeOK /\ UNCHANGED me
  BY DEF WatcherStep, WatcherTakes, WatcherCancels, WatcherEnds, ReplyInv, SessionInv, OnceInv, OwnInv
<1> DEFINE y == conn[c]
           k == y.chan
           ctx == y.ctx
           x1 == [y EXCEPT !.watcher = "watching", !.chan = NoCall, !.ctx = k]
           x2 == [y EXCEPT !.watcher = "ended", !.ctx = NoCall]
           x3 == [y EXCEPT !.watcher = "idle", !.ctx = NoCall, !.canceled = ctx, !.closed = TRUE]
           n == net[c]
           s == <<>>
           m == [n EXCEPT !.out = s]
<1>2. \/ conn' = [conn EXCEPT ![c] = x1] /\ net' = net
      \/ conn' = [conn EXCEPT ![c] = x2] /\ net' = net
      \/ conn' = [conn EXCEPT ![c] = x3] /\ net' = [net EXCEPT ![c] = m]
  BY <1>1 DEF WatcherStep, WatcherTakes, WatcherCancels, WatcherEnds, CloseNet, TypeOK
<1>3. y \in Connection /\ n \in Socket /\ conn'[c] \in Connection /\ net'[c] \in Socket /\ s = <<>>
  BY <1>1 DEF TypeOK
<1> HIDE DEF y, k, ctx, n, s
<1>4. /\ x1.st = y.st /\ x1.buf = y.buf /\ x1.seq = y.seq /\ x1.deprecateEOF = y.deprecateEOF
      /\ x1.more = y.more /\ x1.long = y.long /\ (y.closed => x1.closed)
      /\ x2.st = y.st /\ x2.buf = y.buf /\ x2.seq = y.seq /\ x2.deprecateEOF = y.deprecateEOF
      /\ x2.more = y.more /\ x2.long = y.long /\ (y.closed => x2.closed)
      /\ x3.st = y.st /\ x3.buf = y.buf /\ x3.seq = y.seq /\ x3.deprecateEOF = y.deprecateEOF
      /\ x3.more = y.more /\ x3.long = y.long /\ (y.closed => x3.closed)
  BY <1>3 DEF Connection
<1>5. x3.closed = TRUE /\ m.in = n.in /\ m.out = s
  BY <1>3 DEF Connection, Socket
<1> HIDE DEF x1, x2, x3, m
<1>6. \/ conn'[c] \in {x1, x2} /\ net'[c] = n
      \/ conn'[c] = x3 /\ net'[c] = m
  BY <1>1, <1>2 DEF TypeOK, n
<1>7. Elsewhere(c)
  BY <1>1, <1>2 DEF TypeOK, Elsewhere
<1>8. Lull(y, n, conn'[c], net'[c])
  <2>1. CASE conn'[c] \in {x1, x2} /\ net'[c] = n
    BY <1>3, <1>4, <2>1, WatchLull
  <2>2. CASE conn'[c] = x3 /\ net'[c] = m
    BY <1>3, <1>4, <1>5, <2>2, WatchLull
  <2> QED
    BY <1>6, <2>1, <2>2
<1> QED
  BY <1>1, <1>7, <1>8, LullAccounted DEF y, n

LEMMA ServerGoneAccounted ==
    ASSUME ReplyInv, TypeOK', NEW c \in Conn, ServerGone(c)
    PROVE  Manner(me') /\ \A d \in Conn : Accounted(d)'
<1> DEFINE n == net[c]
           e == <<>>
<1>1. TypeOK /\ UNCHANGED <<conn, me>>
  BY DEF ServerGone, ReplyInv, SessionInv, OnceInv, OwnInv
<1>2. PICK o \in {n.out, <<>>} : net' = [net EXCEPT ![c] = [n EXCEPT !.up = "gone", !.in = e, !.out = o]]
  BY <1>1 DEF ServerGone, TypeOK
<1> DEFINE p == [n EXCEPT !.up = "gone", !.in = e, !.out = o]
<1>3. conn[c] \in Connection /\ n \in Socket /\ net'[c] \in Socket /\ e = <<>>
  BY <1>1 DEF TypeOK
<1> HIDE DEF n, e
<1>4. p.in = e /\ p.out = o
  BY <1>3 DEF Socket
<1> HIDE DEF p
<1>5. net'[c] = p
  BY <1>1, <1>2 DEF TypeOK, p
<1>6. Elsewhere(c)
  BY <1>1, <1>2 DEF TypeOK, Elsewhere
<1>7. Lull(conn[c], n, conn[c], net'[c])
  BY <1>2, <1>3, <1>4, <1>5, WatchLull
<1> QED
  BY <1>1, <1>6, <1>7, LullAccounted DEF n

LEMMA FillAccounted ==
    ASSUME ReplyInv, TypeOK', Fill
    PROVE  Manner(me') /\ \A d \in Conn : Accounted(d)'
<1> DEFINE c == me.c
           x == conn[c]
           n == net[c]
<1>1. TypeOK /\ c \in Conn /\ UNCHANGED me
  BY ReadingFacts DEF Fill, Reading, ReplyInv, SessionInv, OnceInv
<1>2. PICK k \in DOMAIN n.out :
         /\ conn' = [conn EXCEPT ![c].buf = SubSeq(n.out, 1, k)]
         /\ net' = [net EXCEPT ![c].out = SubSeq(@, k + 1, Len(@))]
  BY DEF Fill
<1> DEFINE o == n.out
           b2 == SubSeq(o, 1, k)
           o2 == SubSeq(o, k + 1, Len(o))
           y == [x EXCEPT !.buf = b2]
           p == [n EXCEPT !.out = o2]
<1>3. conn' = [conn EXCEPT ![c] = y] /\ net' = [net EXCEPT ![c] = p]
  BY <1>1, <1>2 DEF TypeOK
<1>4. x \in Connection /\ n \in Socket /\ o \in Seq(ServerFrame) /\ k \in DOMAIN o /\ o = n.out
      /\ x.buf = <<>>
  BY <1>1 DEF TypeOK, Socket, Fill
<1> HIDE DEF c, x, n, o
<1>5. /\ b2 \in Seq(ServerFrame) /\ o2 \in Seq(ServerFrame)
      /\ Prefix(b2 \o o2, x.buf \o o) /\ Len(b2 \o o2) = Len(x.buf \o o)
  BY <1>4, FilledStream, Zenon
<1> HIDE DEF b2, o2
<1>6. /\ y.st = x.st /\ y.buf = b2 /\ y.seq = x.seq /\ y.deprecateEOF = x.deprecateEOF
      /\ y.more = x.more /\ y.long = x.long /\ y.closed = x.closed /\ p.in = n.in /\ p.out = o2
  BY <1>4 DEF Connection, Socket
<1> HIDE DEF y, p
<1>7. conn'[c] = y /\ net'[c] = p /\ Elsewhere(c)
  BY <1>1, <1>3 DEF TypeOK, Elsewhere
<1>8. Stream(y, p) = b2 \o o2 /\ Stream(x, n) = x.buf \o o
  BY <1>4, <1>6 DEF Stream
<1>9. Lull(x, n, y, p)
  BY <1>5, <1>6, <1>8 DEF Lull
<1> QED
  BY <1>1, <1>7, <1>9, LullAccounted DEF c, x, n
-----------------------------------------------------------------------------
(* Packet numbers                                                           *)

LEMMA DivMod ==
    ASSUME NEW a \in Nat, NEW b \in Nat \ {0}
    PROVE  a \div b \in Nat /\ a % b \in 0 .. b - 1 /\ a = b * (a \div b) + (a % b)
OBVIOUS

LEMMA ModUnique ==
    ASSUME NEW b \in Nat \ {0}, NEW q \in Nat, NEW r \in 0 .. b - 1
    PROVE  (b * q + r) % b = r
<1> DEFINE a == b * q + r
           p == a \div b
           s == a % b
<1>1. a \in Nat
  OBVIOUS
<1>2. p \in Nat /\ s \in 0 .. b - 1 /\ b * q + r = b * p + s
  BY <1>1, DivMod
<1> HIDE DEF a, p, s
<1>3. \A u, v \in Nat : u < v => b * v >= b * u + b
  <2> SUFFICES ASSUME NEW u \in Nat, NEW v \in Nat, u < v PROVE b * v >= b * u + b
    OBVIOUS
  <2>1. v >= u + 1
    OBVIOUS
  <2>2. b * v >= b * (u + 1)
    BY <2>1
  <2>3. b * (u + 1) = b * u + b
    OBVIOUS
  <2> QED
    BY <2>2, <2>3
<1>4. ~(p < q) /\ ~(q < p)
  BY <1>2, <1>3
<1>5. s = r
  BY <1>2, <1>4
<1> QED
  BY <1>5 DEF s, a

LEMMA ModNext ==
    ASSUME NEW a \in Nat, NEW b \in Nat \ {0}
    PROVE  ((a % b) + 1) % b = (a + 1) % b
<1> DEFINE q == a \div b
           r == a % b
<1>1. q \in Nat /\ r \in 0 .. b - 1 /\ a = b * q + r
  BY DivMod
<1> HIDE DEF q, r
<1>2. CASE r + 1 < b
  <2>1. r + 1 \in 0 .. b - 1
    BY <1>1, <1>2
  <2>2. (b * q + (r + 1)) % b = r + 1
    BY <1>1, <2>1, ModUnique
  <2>3. (r + 1) % b = r + 1 /\ a + 1 = b * q + (r + 1)
    BY <1>1, <2>1
  <2> QED
    BY <2>2, <2>3 DEF r
<1>3. CASE r + 1 = b
  <2>1. 0 \in 0 .. b - 1 /\ q + 1 \in Nat
    BY <1>1
  <2>2. (b * (q + 1) + 0) % b = 0
    BY <2>1, ModUnique
  <2>3. b * (q + 1) = b * q + b
    BY <1>1
  <2>4. a + 1 = b * (q + 1) + 0
    BY <1>1, <1>3, <2>3
  <2>5. (r + 1) % b = 0
    BY <1>3
  <2> QED
    BY <2>2, <2>4, <2>5 DEF r
<1> QED
  BY <1>1, <1>2, <1>3

LEMMA NextNumber == \A a \in Nat : Next8(a % SeqMod) = (a + 1) % SeqMod
BY ModNext DEF Next8

\* No command is so long that the packet after its answer's first is number 1.
LEMMA NotFirst == \A q \in 1 .. MaxFrames : Next8(q) # 1
<1> SUFFICES ASSUME NEW q \in 1 .. MaxFrames PROVE Next8(q) # 1
  OBVIOUS
<1>1. q + 1 < SeqMod \/ q + 1 = SeqMod
  BY ProtocolAssumption
<1>2. (q + 1) % SeqMod \in {0, q + 1}
  BY <1>1
<1> QED
  BY <1>2 DEF Next8

\* A number small enough is the next one.
LEMMA CountsUp == \A q \in Nat : q + 1 <= MaxFrames => Next8(q) = q + 1
<1> SUFFICES ASSUME NEW q \in Nat, q + 1 <= MaxFrames PROVE Next8(q) = q + 1
  OBVIOUS
<1>1. q + 1 < SeqMod
  BY ProtocolAssumption
<1> QED
  BY <1>1 DEF Next8

-----------------------------------------------------------------------------
(* Reading a frame                                                          *)

LEMMA FrameReceived ==
    ASSUME NEW x \in Connection, NEW y \in Connection, NEW n \in Socket,
           NEW m \in Caller, NEW m2 \in Caller, Manner(m), Receiving(m, x, n),
           m.pc \in ReadPCs, m.got = NoPkt, x.buf # <<>>,
           y.buf = Tail(x.buf), y.seq = Next8(Head(x.buf).seq), y.deprecateEOF = x.deprecateEOF,
           Reads(m, m2, Head(x.buf)), m2.n = m.n, m2.kind = m.kind, m2.bad = m.bad,
           LET own == IF m.part = NoPkt THEN Head(x.buf).own ELSE m.part.own
           IN  (m2.got # NoPkt => m2.got.own = own) /\ (m2.part # NoPkt => m2.part.own = own)
    PROVE  Receiving(m2, y, n)
<1> DEFINE s == Stream(x, n)
           t == Stream(y, n)
           f == Head(x.buf)
           eof == ~x.deprecateEOF
<1>1. s \in Seq(ServerFrame) /\ t \in Seq(ServerFrame) /\ x.buf \in Seq(ServerFrame)
      /\ n.out \in Seq(ServerFrame) /\ eof \in BOOLEAN
  BY StreamType
<1>2. Shift(t, s) /\ f = s[1]
  BY <1>1, ReadStream DEF Stream
<1>3. Numbered(s, x.seq, m.n) /\ Rest(m, s, eof) /\ ~Asked(n) /\ ~m.bad
      /\ (m.part # NoPkt => m.part.own = m.n)
      /\ (m.pc = "header" /\ m.mode = "query" => x.seq \in 1 .. MaxFrames)
  BY DEF Receiving
<1>4. m.pc = "columns" => m.left \in Nat \ {0}
  BY DEF Manner, Caller
<1>5. eof = ~y.deprecateEOF
  OBVIOUS
<1>6. LET own == IF m.part = NoPkt THEN f.own ELSE m.part.own
      IN  (m2.got # NoPkt => m2.got.own = own) /\ (m2.part # NoPkt => m2.part.own = own)
  OBVIOUS
<1>7. y.seq = Next8(f.seq) /\ Reads(m, m2, f)
  OBVIOUS
<1> HIDE DEF s, t, f, eof
<1>8. Numbered(t, Next8(f.seq), m.n) /\ f.seq = x.seq /\ f.own = m.n /\ f \in ServerFrame
  BY <1>1, <1>2, <1>3, ShiftFrames
<1>9. Rest(m2, t, eof) /\ (m.part # NoPkt => m.part.kind = "ROW")
  BY <1>1, <1>2, <1>3, <1>4, <1>7, RestRead
<1>10. ~IsErr(m2.got)
  <2>1. m2.got = NoPkt \/ m2.got.kind \in PacketKind
    BY <1>7, <1>8, <1>9 DEF Reads, ServerFrame, PacketKind
  <2> QED
    BY <2>1 DEF IsErr, NoPkt, Errors, PacketKind
<1>11. m.pc = "header" => m2.got # NoPkt
  <2>1. m.pc = "header" => m.part = NoPkt
    <3>1. m.pc = "header" => ResultRest(m, s, eof)
      BY <1>3, RestKinds DEF HandshakeReads, Preparing
    <3> QED
      BY <3>1 DEF ResultRest
  <2>2. m.pc = "header" => f.size = "part"
    BY <1>1, <1>2, <1>3, <1>4, <2>1, RestNeverEmpty
  <2> QED
    BY <1>7, <2>2 DEF Reads
<1>12. m2.pc = "header" /\ m2.mode = "query" =>
          IF m2.got = NoPkt THEN y.seq \in 1 .. MaxFrames ELSE y.seq # 1
  BY <1>3, <1>7, <1>8, <1>11, NotFirst DEF Reads
<1> QED
  BY <1>3, <1>5, <1>6, <1>7, <1>8, <1>9, <1>10, <1>12 DEF Receiving, t
-----------------------------------------------------------------------------
\* Only the caller's connection was touched.
LEMMA MineAccounted ==
    ASSUME ReplyInv, me.c \in Conn, me'.c = me.c, Elsewhere(me.c),
           conn'[me.c].st \in {"dialled", "ready"} /\ ~conn'[me.c].long =>
              Following(me', conn'[me.c], net'[me.c])
    PROVE  \A d \in Conn : Accounted(d)'
<1>1. Accounted(me.c)'
  BY DEF Accounted
<1> QED
  BY <1>1, OneAccounted

\* Of a connection that is closed nothing more is known than where the reader is.
LEMMA ClosedFollowing ==
    ASSUME NEW m, NEW x, NEW n, x.closed,
           m.pc \in ReadPCs => Failing(m, x) \/ Gone(m, x, n)
    PROVE  Following(m, x, n)
BY DEF Following, Hearing

\* The goroutine is where it was.
LEMMA SameManner ==
    ASSUME NEW m, NEW p, Manner(m), p.pc = m.pc, p.mode = m.mode, p.kind = m.kind,
           p.left = m.left, p.cmd = m.cmd, p.then = m.then, p.mc = m.mc, p.rsDone = m.rsDone,
           p.pc \in ReadPCs \/ (p.got = NoPkt /\ p.part = NoPkt),
           p.got # NoPkt => p.part = NoPkt, p.part = NoPkt => ~p.bad
    PROVE  Manner(p)
BY DEF Manner

LEMMA GotFields ==
    ASSUME me \in Caller, NEW p, Got(p)
    PROVE  /\ me'.pc = me.pc /\ me'.mode = me.mode /\ me'.kind = me.kind /\ me'.left = me.left
           /\ me'.cmd = me.cmd /\ me'.then = me.then /\ me'.mc = me.mc /\ me'.rsDone = me.rsDone
           /\ me'.n = me.n /\ me'.c = me.c
           /\ me'.got = p /\ me'.part = NoPkt /\ me'.bad = FALSE
<1>1. me' = [me EXCEPT !.got = p, !.part = NoPkt, !.bad = FALSE]
  BY DEF Got
<1> QED
  BY <1>1 DEF Caller

LEMMA ReplyFacts ==
    ASSUME ReplyInv
    PROVE  TypeOK /\ me \in Caller /\ CallerInv /\ OwnInv /\ Course(me) /\ Manner(me)
BY DEF ReplyInv, SessionInv, OnceInv, OwnInv, TypeOK

LEMMA ReadFailsAccounted ==
    ASSUME ReplyInv, ReadFails
    PROVE  Manner(me') /\ \A d \in Conn : Accounted(d)'
<1>1. me.pc \in ReadPCs /\ me.c \in Conn /\ me \in Caller /\ TypeOK
  BY ReplyFacts, ReadingFacts DEF ReadFails, Reading
<1> DEFINE e == CanceledOr(me.c, "ErrInvalidConn")
<1>2. e \in Errors
  BY <1>1, ErrorFacts DEF Errors
<1>3. Cleanup(me.c) /\ Got(Err(e))
  BY DEF ReadFails
<1> HIDE DEF e
<1>4. Err(e) # NoPkt /\ IsErr(Err(e))
  BY <1>2 DEF Err, NoPkt, IsErr, Errors
<1>5. /\ me'.pc = me.pc /\ me'.c = me.c /\ me'.got = Err(e) /\ Manner(me')
  BY <1>1, <1>3, <1>4, GotFields, SameManner, ReplyFacts
<1>6. Elsewhere(me.c) /\ conn'[me.c].closed = TRUE
  BY <1>1, <1>3, CloseLull
<1>7. Following(me', conn'[me.c], net'[me.c])
  BY <1>4, <1>5, <1>6, ClosedFollowing DEF Failing
<1> QED
  BY <1>1, <1>5, <1>6, <1>7, MineAccounted

LEMMA WriteFailsAccounted ==
    ASSUME ReplyInv, NEW n, WriteFails(n)
    PROVE  Manner(me') /\ \A d \in Conn : Accounted(d)'
<1>1. me.c \in Conn /\ me \in Caller /\ TypeOK /\ Manner(me) /\ me.pc = "write"
  BY ReplyFacts DEF WriteFails, CallerInv
<1> DEFINE e == Err(CanceledOr(me.c, IF n = 0 THEN "errBadConnNoWrite" ELSE "ErrWrite"))
<1>2. Cleanup(me.c) /\ me' = [me EXCEPT !.pc = "failed", !.got = e]
  BY DEF WriteFails
<1> HIDE DEF e
<1>3. /\ me'.pc = "failed" /\ me'.c = me.c /\ me'.part = me.part /\ me'.bad = me.bad
      /\ me'.mode = me.mode /\ me'.kind = me.kind /\ me'.got = e
  BY <1>1, <1>2 DEF Caller
<1>4. me.part = NoPkt /\ ~me.bad
  BY <1>1 DEF Manner, ReadPCs
<1>5. Manner(me')
  BY <1>1, <1>3, <1>4 DEF Manner, ReadPCs
<1>6. Elsewhere(me.c) /\ conn'[me.c].closed = TRUE
  BY <1>1, <1>2, CloseLull
<1>7. Following(me', conn'[me.c], net'[me.c])
  BY <1>3, <1>6, ClosedFollowing DEF ReadPCs
<1> QED
  BY <1>1, <1>3, <1>5, <1>6, <1>7, MineAccounted
-----------------------------------------------------------------------------
\* The first frame in the buffer is one nobody expects.
Ends(m, x) ==
    LET f == Head(x.buf)
        wrong == f.seq # x.seq
    IN  \/ wrong /\ m.part # NoPkt
        \/ m.part = NoPkt /\ f.size = "zero"
        \/ f.size = "part" /\ (m.bad \/ wrong)

LEMMA FrameExpected ==
    ASSUME NEW x \in Connection, NEW n \in Socket, NEW m \in Caller, Manner(m), Hearing(m, x, n),
           m.pc \in ReadPCs, m.got = NoPkt, x.buf # <<>>
    PROVE  \/ Receiving(m, x, n) /\ ~Ends(m, x)
           \/ Start(m, x) /\ Ends(m, x) /\ Head(x.buf).size = "part"
<1> DEFINE s == Stream(x, n)
           f == Head(x.buf)
           u == Tail(x.buf) \o n.out
           eof == ~x.deprecateEOF
<1>1. x.buf \in Seq(ServerFrame) /\ n.out \in Seq(ServerFrame) /\ eof \in BOOLEAN
      /\ s \in Seq(ServerFrame) /\ Len(s) \in Nat
  BY StreamType
<1>2. u \in Seq(ServerFrame) /\ Shift(u, s) /\ f = s[1]
  BY <1>1, ReadStream, Joined DEF Stream
<1> HIDE DEF s, f, eof, u
<1>3. 1 <= Len(s) /\ f \in ServerFrame
  BY <1>1, <1>2, ShiftFrames
<1>4. ~IsErr(m.got) /\ m.got.kind # "ERR"
  BY DEF NoPkt, IsErr, Errors
<1>5. Receiving(m, x, n) \/ Mixed(m, x, n)
  BY <1>1, <1>3, <1>4 DEF Hearing, Failing, Waiting, Gone, s
<1>6. CASE Receiving(m, x, n)
  <2>1. Numbered(s, x.seq, m.n) /\ Rest(m, s, eof) /\ ~m.bad
    BY <1>6 DEF Receiving, s, eof
  <2>2. m.pc = "columns" => m.left \in Nat \ {0}
    BY DEF Manner, Caller
  <2>3. f.seq = x.seq
    BY <1>1, <1>2, <2>1, ShiftFrames
  <2>4. m.part = NoPkt => f.size # "zero"
    <3> SUFFICES ASSUME m.part = NoPkt PROVE f.size # "zero"
      OBVIOUS
    <3> QED
      BY <1>1, <1>2, <2>1, <2>2, RestNeverEmpty
  <2> QED
    BY <1>6, <2>1, <2>3, <2>4 DEF Ends, f
<1>7. CASE Mixed(m, x, n)
  <2>1. Start(m, x) /\ f.size = "part" /\ f.seq # x.seq
    BY <1>2, <1>7 DEF Mixed, Stray, s
  <2> QED
    BY <2>1 DEF Ends, f
<1> QED
  BY <1>5, <1>6, <1>7

\* What readPacket does with it.
LEMMA FrameEffect ==
    ASSUME OwnInv, ReadFrame
    PROVE  LET f == Head(conn[me.c].buf)
               pkt == IF me.part = NoPkt THEN [kind |-> f.kind, own |-> f.own, arg |-> f.arg]
                      ELSE me.part
           IN  \/ /\ Ends(me, conn[me.c]) /\ conn'[me.c].closed = TRUE
                  /\ \E p : Got(p) /\ p # NoPkt /\ (IsErr(p) \/ p.kind = "ERR")
               \/ /\ ~Ends(me, conn[me.c]) /\ net' = net /\ f.size # "full"
                  /\ conn'[me.c].buf = Tail(conn[me.c].buf) /\ conn'[me.c].seq = Next8(f.seq)
                  /\ conn'[me.c].deprecateEOF = conn[me.c].deprecateEOF
                  /\ Got(pkt)
               \/ /\ ~Ends(me, conn[me.c]) /\ net' = net /\ f.size = "full"
                  /\ conn'[me.c].buf = Tail(conn[me.c].buf) /\ conn'[me.c].seq = Next8(f.seq)
                  /\ conn'[me.c].deprecateEOF = conn[me.c].deprecateEOF
                  /\ \E b \in BOOLEAN : me' = [me EXCEPT !.part = pkt, !.bad = b] /\ (b => me.bad \/ f.seq # conn[me.c].seq)
<1> DEFINE y == conn[me.c]
           f == Head(y.buf)
           t == Tail(y.buf)
           q == Next8(f.seq)
           pkt == IF me.part = NoPkt THEN [kind |-> f.kind, own |-> f.own, arg |-> f.arg]
                  ELSE me.part
           bad == me.bad \/ OutOfSync(f)
           x == [y EXCEPT !.buf = t, !.seq = q]
           z == [y EXCEPT !.buf = t, !.seq = q, !.closed = TRUE]
<1>1. me.c \in Conn /\ TypeOK /\ y \in Connection /\ bad \in BOOLEAN
  BY ReadingFacts DEF ReadFrame, Reading, TypeOK, OutOfSync, Caller
<1>2. Ends(me, y) <=> (\/ OutOfSync(f) /\ me.part # NoPkt
                       \/ me.part = NoPkt /\ f.size = "zero"
                       \/ f.size = "part" /\ bad)
  BY DEF Ends, OutOfSync
<1>3. \/ /\ Ends(me, y) /\ conn' = [conn EXCEPT ![me.c] = z]
         /\ Got(Err("ErrPktSyncMul")) \/ Got(Err("ErrInvalidConn")) \/ Got(Err("ErrPktSync"))
            \/ (Got(pkt) /\ pkt.kind = "ERR")
      \/ /\ ~Ends(me, y) /\ conn' = [conn EXCEPT ![me.c] = x] /\ net' = net
         /\ f.size \in {"part", "zero"} /\ Got(pkt)
      \/ /\ ~Ends(me, y) /\ conn' = [conn EXCEPT ![me.c] = x] /\ net' = net
         /\ f.size = "full" /\ me' = [me EXCEPT !.part = pkt, !.bad = bad]
  BY <1>2, Zenon DEF ReadFrame
<1>4. bad => me.bad \/ f.seq # y.seq
  BY DEF OutOfSync
<1> HIDE DEF y, f, t, q, pkt, bad
<1>5. /\ x.buf = t /\ x.seq = q /\ x.deprecateEOF = y.deprecateEOF /\ z.closed = TRUE
  BY <1>1 DEF Connection
<1> HIDE DEF x, z
<1>6. /\ conn' = [conn EXCEPT ![me.c] = x] => conn'[me.c] = x
      /\ conn' = [conn EXCEPT ![me.c] = z] => conn'[me.c] = z
  BY <1>1 DEF TypeOK
<1>7. \A e \in Errors : Err(e) # NoPkt /\ IsErr(Err(e))
  BY DEF Err, NoPkt, IsErr, Errors
<1>8. pkt.kind = "ERR" => pkt # NoPkt
  BY DEF NoPkt
<1>9. \/ /\ Ends(me, y) /\ conn'[me.c].closed = TRUE
         /\ \E p : Got(p) /\ p # NoPkt /\ (IsErr(p) \/ p.kind = "ERR")
      \/ /\ ~Ends(me, y) /\ net' = net /\ f.size # "full"
         /\ conn'[me.c].buf = t /\ conn'[me.c].seq = q
         /\ conn'[me.c].deprecateEOF = y.deprecateEOF
         /\ Got(pkt)
      \/ /\ ~Ends(me, y) /\ net' = net /\ f.size = "full"
         /\ conn'[me.c].buf = t /\ conn'[me.c].seq = q
         /\ conn'[me.c].deprecateEOF = y.deprecateEOF
         /\ \E b \in BOOLEAN : me' = [me EXCEPT !.part = pkt, !.bad = b] /\ (b => me.bad \/ f.seq # y.seq)
  <2>1. "ErrPktSyncMul" \in Errors /\ "ErrInvalidConn" \in Errors /\ "ErrPktSync" \in Errors
    BY DEF Errors
  <2>2. CASE /\ Ends(me, y) /\ conn' = [conn EXCEPT ![me.c] = z]
             /\ Got(Err("ErrPktSyncMul")) \/ Got(Err("ErrInvalidConn")) \/ Got(Err("ErrPktSync"))
                \/ (Got(pkt) /\ pkt.kind = "ERR")
    <3>1. \E p : Got(p) /\ p # NoPkt /\ (IsErr(p) \/ p.kind = "ERR")
      BY <1>7, <1>8, <2>1, <2>2, Zenon
    <3>2. conn'[me.c].closed = TRUE
      BY <1>5, <1>6, <2>2
    <3> QED
      BY <2>2, <3>1, <3>2
  <2>3. CASE /\ ~Ends(me, y) /\ conn' = [conn EXCEPT ![me.c] = x] /\ net' = net
             /\ f.size \in {"part", "zero"} /\ Got(pkt)
    BY <1>5, <1>6, <2>3
  <2>4. CASE /\ ~Ends(me, y) /\ conn' = [conn EXCEPT ![me.c] = x] /\ net' = net
             /\ f.size = "full" /\ me' = [me EXCEPT !.part = pkt, !.bad = bad]
    <3>1. conn'[me.c].buf = t /\ conn'[me.c].seq = q /\ conn'[me.c].deprecateEOF = y.deprecateEOF
      BY <1>5, <1>6, <2>4
    <3>2. \E b \in BOOLEAN : me' = [me EXCEPT !.part = pkt, !.bad = b] /\ (b => me.bad \/ f.seq # y.seq)
      BY <1>1, <1>4, <2>4
    <3> QED
      BY <2>4, <3>1, <3>2
  <2> QED
    BY <1>3, <2>2, <2>3, <2>4, Zenon
<1> QED
  BY <1>9, ZenonT(30) DEF y, f, t, q, pkt
LEMMA HearingFollowing ==
    ASSUME NEW m, NEW x, NEW n, m.pc \in ReadPCs, Hearing(m, x, n)
    PROVE  Following(m, x, n)
BY DEF Following, Paused, ReadPCs

LEMMA ReadFrameAccounted ==
    ASSUME ReplyInv, TypeOK', ReadFrame
    PROVE  Manner(me') /\ \A d \in Conn : Accounted(d)'
<1> DEFINE x == conn[me.c]
           y == conn'[me.c]
           n == net[me.c]
           f == Head(x.buf)
           pkt == IF me.part = NoPkt THEN [kind |-> f.kind, own |-> f.own, arg |-> f.arg]
                  ELSE me.part
           z == [x EXCEPT !.buf = Tail(x.buf), !.seq = Next8(f.seq)]
<1>1. /\ me.c \in Conn /\ TypeOK /\ me \in Caller /\ Manner(me) /\ me.pc \in ReadPCs /\ me.got = NoPkt
      /\ x \in Connection /\ n \in Socket /\ y \in Connection /\ me' \in Caller /\ OwnInv
      /\ x.buf # <<>>
  BY ReadingFacts, ReplyFacts, Zenon DEF ReadFrame, Reading, TypeOK, Busy
<1>2. Elsewhere(me.c)
  <2>1. \A d \in Conn : d # me.c => conn'[d] = conn[d]
    BY <1>1, Zenon DEF ReadFrame, TypeOK
  <2>2. \A d \in Conn : d # me.c => net'[d] = net[d]
    BY <1>1, Zenon DEF ReadFrame, TypeOK
  <2> QED
    BY <2>1, <2>2 DEF Elsewhere
<1>3. y.st = x.st /\ y.long = x.long
  <2> DEFINE t == Tail(x.buf)
             q == Next8(f.seq)
             v == [x EXCEPT !.buf = t, !.seq = q]
             w == [x EXCEPT !.buf = t, !.seq = q, !.closed = TRUE]
  <2>1. conn' = [conn EXCEPT ![me.c] = v] \/ conn' = [conn EXCEPT ![me.c] = w]
    BY ZenonT(60) DEF ReadFrame
  <2> HIDE DEF t, q, x
  <2>2. v.st = x.st /\ v.long = x.long /\ w.st = x.st /\ w.long = x.long
    BY <1>1 DEF Connection
  <2> HIDE DEF v, w
  <2>3. y = v \/ y = w
    BY <1>1, <2>1 DEF TypeOK
  <2> QED
    BY <2>2, <2>3
<1>4. f \in ServerFrame
  BY <1>1 DEF Connection
<1>5. pkt # NoPkt
  BY <1>4 DEF ServerFrame, PacketKind, NoPkt
<1>6. \/ /\ Ends(me, x) /\ y.closed = TRUE
         /\ \E p : Got(p) /\ p # NoPkt /\ (IsErr(p) \/ p.kind = "ERR")
      \/ /\ ~Ends(me, x) /\ net' = net /\ f.size # "full"
         /\ y.buf = Tail(x.buf) /\ y.seq = Next8(f.seq)
         /\ y.deprecateEOF = x.deprecateEOF
         /\ Got(pkt)
      \/ /\ ~Ends(me, x) /\ net' = net /\ f.size = "full"
         /\ y.buf = Tail(x.buf) /\ y.seq = Next8(f.seq)
         /\ y.deprecateEOF = x.deprecateEOF
         /\ \E b \in BOOLEAN : me' = [me EXCEPT !.part = pkt, !.bad = b] /\ (b => me.bad \/ f.seq # x.seq)
  BY <1>1, FrameEffect, Zenon
<1>7. /\ pkt.kind = IF me.part = NoPkt THEN f.kind ELSE me.part.kind
      /\ pkt.own = IF me.part = NoPkt THEN f.own ELSE me.part.own
  OBVIOUS
<1>8. x.st \in {"dialled", "ready"} /\ ~x.long => Hearing(me, x, n)
  BY <1>1 DEF ReplyInv, Accounted, Following
<1>9. Hearing(me, x, n) => \/ Receiving(me, x, n) /\ ~Ends(me, x)
                           \/ Start(me, x) /\ Ends(me, x) /\ f.size = "part"
  BY <1>1, FrameExpected
<1> HIDE DEF x, y, n, f, pkt
<1>10. CASE /\ Ends(me, x) /\ y.closed = TRUE
            /\ \E p : Got(p) /\ p # NoPkt /\ (IsErr(p) \/ p.kind = "ERR")
  <2>1. PICK p : Got(p) /\ p # NoPkt /\ (IsErr(p) \/ p.kind = "ERR")
    BY <1>10
  <2>2. me'.pc = me.pc /\ me'.c = me.c /\ me'.got = p /\ Manner(me')
    BY <1>1, <2>1, GotFields, SameManner
  <2>3. Hearing(me, x, n) => Following(me', y, net'[me.c])
    BY <1>9, <1>10, <2>1, <2>2, ClosedFollowing DEF Failing, Start, HandshakeReads
  <2> QED
    BY <1>1, <1>2, <1>3, <1>8, <2>2, <2>3, MineAccounted DEF y
<1>11. CASE /\ ~Ends(me, x) /\ net' = net /\ f.size # "full"
            /\ y.buf = Tail(x.buf) /\ y.seq = Next8(f.seq)
            /\ y.deprecateEOF = x.deprecateEOF
            /\ Got(pkt)
  <2>1. /\ me'.pc = me.pc /\ me'.mode = me.mode /\ me'.kind = me.kind /\ me'.left = me.left
        /\ me'.n = me.n /\ me'.c = me.c /\ me'.got = pkt /\ me'.part = NoPkt /\ me'.bad = FALSE
        /\ Manner(me')
    BY <1>1, <1>11, GotFields, SameManner
  <2>2. Reads(me, me', f)
    BY <1>5, <1>7, <1>11, <2>1 DEF Reads
  <2>3. Receiving(me, x, n) => Receiving(me', y, n)
    <3> SUFFICES ASSUME Receiving(me, x, n) PROVE Receiving(me', y, n)
      OBVIOUS
    <3>1. me'.bad = me.bad
      BY <1>1, <2>1 DEF Receiving, Caller
    <3> QED
      BY <1>1, <1>7, <1>11, <2>1, <2>2, <3>1, FrameReceived DEF f
  <2>4. Hearing(me, x, n) => Following(me', y, n)
    BY <1>1, <1>9, <1>11, <2>1, <2>3, HearingFollowing DEF Hearing
  <2> QED
    BY <1>1, <1>2, <1>3, <1>8, <1>11, <2>1, <2>4, MineAccounted DEF y, n
<1>12. CASE /\ ~Ends(me, x) /\ net' = net /\ f.size = "full"
            /\ y.buf = Tail(x.buf) /\ y.seq = Next8(f.seq)
            /\ y.deprecateEOF = x.deprecateEOF
            /\ \E b \in BOOLEAN : me' = [me EXCEPT !.part = pkt, !.bad = b] /\ (b => me.bad \/ f.seq # x.seq)
  <2>1. PICK b \in BOOLEAN : me' = [me EXCEPT !.part = pkt, !.bad = b] /\ (b => me.bad \/ f.seq # x.seq)
    BY <1>12
  <2>2. /\ me'.pc = me.pc /\ me'.mode = me.mode /\ me'.kind = me.kind /\ me'.left = me.left
        /\ me'.cmd = me.cmd /\ me'.then = me.then /\ me'.mc = me.mc /\ me'.rsDone = me.rsDone
        /\ me'.n = me.n /\ me'.c = me.c /\ me'.got = NoPkt /\ me'.part = pkt /\ me'.bad = b
    BY <1>1, <2>1 DEF Caller
  <2>3. Manner(me')
    BY <1>1, <1>5, <2>2, SameManner
  <2>4. Reads(me, me', f)
    BY <1>5, <1>7, <1>12, <2>2 DEF Reads
  <2>5. Receiving(me, x, n) => Receiving(me', y, n)
    <3> SUFFICES ASSUME Receiving(me, x, n) PROVE Receiving(me', y, n)
      OBVIOUS
    <3>1. f.seq = x.seq
      <4> DEFINE s == Stream(x, n)
                 t == Tail(x.buf) \o n.out
      <4>1. x.buf \in Seq(ServerFrame) /\ n.out \in Seq(ServerFrame) /\ s \in Seq(ServerFrame)
        BY <1>1, StreamType
      <4>2. t \in Seq(ServerFrame) /\ Shift(t, s) /\ f = s[1]
        BY <1>1, <4>1, ReadStream, Joined DEF Stream, f
      <4>3. Numbered(s, x.seq, me.n)
        BY DEF Receiving
      <4> HIDE DEF s, t
      <4> QED
        BY <4>1, <4>2, <4>3, ShiftFrames
    <3>2. me'.bad = me.bad
      BY <1>1, <2>1, <2>2, <3>1 DEF Receiving, Caller
    <3> QED
      BY <1>1, <1>7, <1>12, <2>2, <2>4, <3>2, FrameReceived DEF f
  <2>6. Hearing(me, x, n) => Following(me', y, n)
    BY <1>1, <1>9, <1>12, <2>2, <2>5, HearingFollowing DEF Hearing
  <2> QED
    BY <1>1, <1>2, <1>3, <1>8, <1>12, <2>2, <2>3, <2>6, MineAccounted DEF y, n
<1> QED
  BY <1>6, <1>10, <1>11, <1>12
-----------------------------------------------------------------------------
\* A reader that is suspended between two packets may move.
LEMMA PausedMoves ==
    ASSUME NEW m, NEW p, NEW x, NEW n, Receiving(m, x, n),
           m.pc \in {"rows", "drain", "finish"}, p.pc \in {"rows", "drain", "finish"},
           p.got = m.got, p.part = m.part, p.bad = m.bad, p.n = m.n, p.rsDone = m.rsDone,
           m.got = NoPkt
    PROVE  Receiving(p, x, n)
<1> DEFINE s == Stream(x, n)
           eof == ~x.deprecateEOF
<1>1. ResultRest(m, s, eof) => ResultRest(p, s, eof)
  BY DEF ResultRest, Unread, JustRead, ReadPCs
<1>2. Rest(m, s, eof) <=> ResultRest(m, s, eof)
  BY RestKinds DEF Preparing, HandshakeReads
<1>3. Rest(p, s, eof) <=> ResultRest(p, s, eof)
  BY RestKinds DEF Preparing, HandshakeReads
<1> QED
  BY <1>1, <1>2, <1>3 DEF Receiving

LEMMA FinishAccounted ==
    ASSUME ReplyInv, TypeOK', Finish
    PROVE  Manner(me') /\ \A d \in Conn : Accounted(d)'
<1>1. /\ me.pc = "finish" /\ me.c \in Conn /\ TypeOK /\ me \in Caller /\ Manner(me)
      /\ me.then \in BetweenPCs \cup {"connectFailed"} /\ net' = net
  BY ReplyFacts DEF Finish, CallerInv
<1>2. /\ me' = [me EXCEPT !.pc = me.then]
  BY DEF Finish
<1>3. /\ me'.pc = me.then /\ me'.then = me.then /\ me'.c = me.c /\ me'.got = me.got /\ me'.part = me.part
      /\ me'.bad = me.bad /\ me'.n = me.n /\ me'.rsDone = me.rsDone /\ me'.mc = me.mc
      /\ me'.mode = me.mode /\ me'.kind = me.kind
  BY <1>1, <1>2 DEF Caller
<1>4. me'.pc \notin ReadPCs /\ me'.pc \notin {"rows", "finish", "write", "failed", "skip", "next", "columns"}
  BY <1>1, <1>3 DEF ReadPCs, BetweenPCs
<1>5. me.got = NoPkt /\ me.part = NoPkt /\ ~me.bad
  BY <1>1 DEF Manner, ReadPCs
<1>6. Manner(me')
  BY <1>1, <1>3, <1>4, <1>5 DEF Manner
<1> DEFINE y == conn[me.c]
           n == net[me.c]
           x == [y EXCEPT !.watching = FALSE, !.watcher = "idle", !.ctx = NoCall]
<1>7. conn' = conn \/ conn' = [conn EXCEPT ![me.c] = x]
  BY DEF Finish
<1>8. y \in Connection /\ conn'[me.c] \in Connection /\ n \in Socket
  BY <1>1 DEF TypeOK
<1>9. Elsewhere(me.c)
  BY <1>1, <1>7 DEF Elsewhere, TypeOK
<1> HIDE DEF y, n
<1>10. /\ x.st = y.st /\ x.buf = y.buf /\ x.seq = y.seq /\ x.deprecateEOF = y.deprecateEOF
       /\ x.more = y.more /\ x.long = y.long /\ x.closed = y.closed
  BY <1>8 DEF Connection
<1> HIDE DEF x
<1>11. conn'[me.c] = y \/ conn'[me.c] = x
  BY <1>1, <1>7 DEF TypeOK, y
<1> DEFINE z == conn'[me.c]
<1>12. Lull(y, n, z, n)
  BY <1>8, <1>10, <1>11, WatchLull
<1>13. z.st = y.st /\ z.long = y.long /\ (y.closed => z.closed) /\ z \in Connection /\ z.more = y.more
  BY <1>8, <1>10, <1>11
<1>14. y.st \in {"dialled", "ready"} /\ ~y.long => Following(me, y, n)
  BY <1>1 DEF ReplyInv, Accounted, y, n
<1> HIDE DEF z
<1>15. ASSUME Following(me, y, n) PROVE Following(me', z, n)
  <2>1. Following(me, z, n)
    BY <1>1, <1>8, <1>12, <1>13, <1>15, LullFollowing
  <2>2. Paused(me') => Paused(me)
    BY <1>1, <1>3, <1>4 DEF Paused
  <2>3. Paused(me) => Paused(me') /\ me'.pc = "drain"
    BY <1>1, <1>3 DEF Paused
  <2>4. Receiving(me, z, n) /\ me'.pc = "drain" => Receiving(me', z, n)
    BY <1>1, <1>3, <1>5, PausedMoves
  <2>5. me.pc \notin ReadPCs
    BY <1>1 DEF ReadPCs
  <2> QED
    BY <1>3, <1>4, <2>1, <2>2, <2>3, <2>4, <2>5 DEF Following
<1> QED
  BY <1>1, <1>3, <1>6, <1>9, <1>13, <1>14, <1>15, MineAccounted DEF z, n
-----------------------------------------------------------------------------
(* Writing a frame                                                          *)

LEMMA AppendedFrame ==
    ASSUME NEW s \in Seq(ClientFrame), NEW f \in ClientFrame
    PROVE  LET t == Append(s, f)
           IN  /\ Len(t) = Len(s) + 1 /\ Len(s) \in Nat /\ t[Len(t)] = f
               /\ DOMAIN t = 1 .. Len(s) + 1 /\ DOMAIN s = 1 .. Len(s)
               /\ \A i \in 1 .. Len(s) : t[i] = s[i]
OBVIOUS

\* A frame that is no question makes nobody wait.
LEMMA StillNotAsked ==
    ASSUME NEW n \in Socket, NEW p, NEW f \in ClientFrame, ~Asked(n),
           p.in = n.in \/ p.in = Append(n.in, f), ~(Full(f) /\ f.cmd \in Answered)
    PROVE  ~Asked(p)
<1>1. n.in \in Seq(ClientFrame)
  BY DEF Socket
<1>2. CASE p.in = n.in
  BY <1>2 DEF Asked
<1>3. CASE p.in = Append(n.in, f)
  <2>1. \A i \in DOMAIN p.in : p.in[i] = f \/ (i \in DOMAIN n.in /\ p.in[i] = n.in[i])
    BY <1>1, <1>3, AppendedFrame
  <2> QED
    BY <2>1 DEF Asked
<1> QED
  BY <1>2, <1>3

\* The question is asked.
LEMMA AskedWaiting ==
    ASSUME NEW n \in Socket, NEW p, NEW f \in ClientFrame, ~Asked(n), p.in = Append(n.in, f),
           Full(f), NEW m, NEW x, Awaits(m.pc, f.cmd), f.own = m.n, Next8(f.seq) = x.seq,
           Start(m, x), Len(Stream(x, p)) = 0
    PROVE  Waiting(m, x, p)
<1>1. n.in \in Seq(ClientFrame)
  BY DEF Socket
<1> DEFINE l == Len(p.in)
<1>2. l = Len(n.in) + 1 /\ Len(n.in) \in Nat /\ p.in[l] = f /\ DOMAIN n.in = 1 .. Len(n.in)
      /\ \A i \in 1 .. Len(n.in) : p.in[i] = n.in[i]
  BY <1>1, AppendedFrame
<1>3. l # 0 /\ l - 1 = Len(n.in)
  BY <1>2
<1> HIDE DEF l
<1>4. \A i \in 1 .. l - 1 : Full(p.in[i]) => p.in[i].cmd \notin Answered
  BY <1>2, <1>3 DEF Asked
<1> QED
  BY <1>2, <1>3, <1>4 DEF Waiting, l

LEMMA AwaitsFacts ==
    ASSUME NEW pc, NEW cmd, Awaits(pc, cmd)
    PROVE  /\ pc \in {"ok", "prepared", "header", "authResult", "authOK", "authKey"} /\ cmd \in Answered
           /\ cmd \in AuthCmds => pc \in HandshakePCs
BY DEF Awaits, Answered, Sent, AuthCmds, Main, HandshakePCs

\* The last frame of a command.
LEMMA LastFrame ==
    ASSUME NEW x \in Connection, NEW n \in Socket, NEW y \in Connection, NEW p \in Socket,
           NEW m \in Caller, NEW m2 \in Caller, NEW f \in ClientFrame,
           Manner(m), m.pc = "write", m.left = 1, Resting(x, n),
           x.st = "ready" => /\ x.seq + m.left <= MaxFrames
                             /\ 1 <= Len(Stream(x, n)) => x.seq = 0 /\ m.left = 1,
           m.then \in {"ok", "prepared", "header"} => x.st = "ready",
           y.buf = x.buf, y.seq = Next8(x.seq), y.st = x.st, y.more = x.more, p.out = n.out,
           p.in = n.in \/ p.in = Append(n.in, f),
           f.cmd = m.cmd, f.own = m.n, f.seq = x.seq, f.last,
           m2.pc = m.then, m2.n = m.n, m2.got = NoPkt, m2.part = NoPkt, ~m2.bad
    PROVE  Following(m2, y, p)
<1>1. Stream(y, p) = Stream(x, n) /\ Len(Stream(x, n)) \in Nat
  BY StreamType DEF Stream
<1>2. ~Asked(n) /\ (1 <= Len(Stream(x, n)) => x.st = "ready" /\ x.more /\ Stray(Stream(x, n), 1))
  BY DEF Resting
<1>3. Full(f)
  BY DEF Full
<1>4. x.seq \in Nat
  BY DEF Connection
<1>5. x.st = "ready" => y.seq = x.seq + 1 /\ y.seq \in 1 .. MaxFrames
  BY <1>4, CountsUp
<1>6. CASE Awaits(m.then, m.cmd)
  <2>1. m2.pc \in {"ok", "prepared", "header", "authResult", "authOK", "authKey"} /\ m2.pc \in ReadPCs
    BY <1>6, AwaitsFacts DEF ReadPCs
  <2>2. Start(m2, y)
    BY <1>5, <2>1 DEF Start
  <2>3. CASE 1 <= Len(Stream(x, n))
    <3>1. x.seq = 0 /\ y.seq = 1
      BY <1>2, <1>5, <2>3
    <3>2. Mixed(m2, y, p)
      BY <1>1, <1>2, <2>2, <2>3, <3>1 DEF Mixed
    <3> QED
      BY <2>1, <3>2, HearingFollowing DEF Hearing
  <2>4. CASE ~(1 <= Len(Stream(x, n)))
    <3>1. Len(Stream(y, p)) = 0
      BY <1>1, <2>4
    <3>2. CASE p.in = n.in
      <4>1. ~Asked(p)
        BY <1>2, <3>2 DEF Asked
      <4>2. Receiving(m2, y, p)
        BY <2>2, <3>1, <4>1, NothingComes
      <4> QED
        BY <2>1, <4>2, HearingFollowing DEF Hearing
    <3>3. CASE p.in = Append(n.in, f)
      <4>1. Waiting(m2, y, p)
        BY <1>2, <1>3, <1>6, <2>2, <3>1, <3>3, AskedWaiting
      <4> QED
        BY <2>1, <4>1, HearingFollowing DEF Hearing
    <3> QED
      BY <3>2, <3>3
  <2> QED
    BY <2>3, <2>4
<1>7. CASE <<m.then, m.cmd>> \in {<<"tls", "sslRequest">>, <<"execute", "longData">>,
                                  <<"release", "stmtClose">>}
  <2>1. m2.pc \in {"tls", "execute", "release"} /\ f.cmd \notin Answered
    BY <1>7 DEF Answered
  <2>2. ~Asked(p)
    BY <1>2, <2>1, StillNotAsked
  <2>3. Resting(y, p)
    BY <1>1, <1>2, <2>2 DEF Resting
  <2> QED
    BY <2>1, <2>3 DEF Following, Paused, ReadPCs
<1> QED
  BY <1>6, <1>7 DEF Manner

\* A frame that is not the last.
LEMMA NextFrame ==
    ASSUME NEW x \in Connection, NEW n \in Socket, NEW y \in Connection, NEW p \in Socket,
           NEW m \in Caller, NEW m2 \in Caller, NEW f \in ClientFrame,
           Manner(m), m.pc = "write", m.left \in Nat \ {0, 1}, Resting(x, n), x.st = "ready",
           x.seq + m.left <= MaxFrames, 1 <= Len(Stream(x, n)) => x.seq = 0 /\ m.left = 1,
           y.buf = x.buf, y.seq = Next8(x.seq), y.st = x.st, y.more = x.more, p.out = n.out,
           p.in = n.in \/ p.in = Append(n.in, f), f.cmd = m.cmd, ~f.last,
           m2.pc = "write", m2.left = m.left - 1
    PROVE  Following(m2, y, p)
<1>1. Stream(y, p) = Stream(x, n) /\ Len(Stream(x, n)) \in Nat
  BY StreamType DEF Stream
<1>2. ~Asked(n)
  BY DEF Resting
<1>3. m.cmd \notin AuthCmds
  <2>1. m.then \notin HandshakePCs
    BY DEF Manner
  <2>2. Awaits(m.then, m.cmd) => m.cmd \notin AuthCmds
    BY <2>1, AwaitsFacts
  <2> QED
    BY <2>1, <2>2 DEF Manner, AuthCmds, HandshakePCs
<1>4. ~Asked(p)
  BY <1>2, <1>3, StillNotAsked DEF Full
<1>5. ~(1 <= Len(Stream(y, p)))
  BY <1>1
<1>6. x.seq \in Nat /\ MaxFrames \in Nat
  BY DEF Connection
<1>7. y.seq = x.seq + 1
  BY <1>6, CountsUp
<1>8. y.seq + m2.left <= MaxFrames
  BY <1>6, <1>7
<1>9. Resting(y, p)
  BY <1>4, <1>5 DEF Resting
<1> QED
  BY <1>5, <1>8, <1>9 DEF Following, Paused, ReadPCs
LEMMA WriteFrameAccounted ==
    ASSUME ReplyInv, TypeOK', WriteFrame
    PROVE  Manner(me') /\ \A d \in Conn : Accounted(d)'
<1>1. me.pc = "write" /\ ~conn[me.c].closed
  BY DEF WriteFrame
<1>2. /\ TypeOK /\ me \in Caller /\ me.c \in Conn /\ me.n # NoCall /\ me.left \in Nat \ {0} /\ me.cmd \in Sent
      /\ \/ St = "dialled" /\ me.then \in HandshakePCs
         \/ St = "ready" /\ me.then \in ReplyPCs \cup {"release"}
      /\ Manner(me)
  BY <1>1, WriteFacts, ReplyFacts
<1> DEFINE y == conn[me.c]
           n == net[me.c]
           q == Next8(y.seq)
           f == Frame(me.left = 1)
           i == IF n.up = "gone" THEN n.in ELSE Append(n.in, f)
           l == me.left - 1
           p == IF me.left = 1 THEN me.then ELSE "write"
           x == [y EXCEPT !.seq = q]
           m == [n EXCEPT !.in = i]
<1>3. y \in Connection /\ n \in Socket /\ conn'[me.c] \in Connection /\ net'[me.c] \in Socket /\ me' \in Caller
  BY <1>2 DEF TypeOK
<1>5. f \in ClientFrame /\ f.cmd = me.cmd /\ f.own = me.n /\ f.seq = y.seq /\ (f.last <=> me.left = 1)
  BY <1>2, <1>3 DEF Frame, ClientFrame, Connection, Caller
<1>6. i = n.in \/ i = Append(n.in, f)
  OBVIOUS
<1>7. /\ conn' = [conn EXCEPT ![me.c] = x] /\ net' = [net EXCEPT ![me.c] = m]
      /\ me' = [me EXCEPT !.left = l, !.pc = p]
  BY <1>1 DEF WriteFrame
<1>8. p = (IF me.left = 1 THEN me.then ELSE "write") /\ l = me.left - 1 /\ q = Next8(y.seq)
  OBVIOUS
<1>9. y.st = St /\ ~y.closed
  BY <1>1 DEF St
<1>10. y.st \in {"dialled", "ready"} /\ ~y.long => Following(me, y, n)
  BY <1>2 DEF ReplyInv, Accounted
<1> HIDE DEF y, n, q, f, i, l, p
<1>11. /\ x.st = y.st /\ x.buf = y.buf /\ x.seq = q /\ x.more = y.more /\ x.long = y.long
       /\ m.in = i /\ m.out = n.out
  BY <1>3 DEF Connection, Socket
<1> HIDE DEF x, m
<1>12. conn'[me.c] = x /\ net'[me.c] = m /\ Elsewhere(me.c)
  BY <1>2, <1>7 DEF TypeOK, Elsewhere
<1>13. /\ me'.pc = p /\ me'.left = l /\ me'.then = me.then /\ me'.n = me.n /\ me'.c = me.c
       /\ me'.cmd = me.cmd /\ me'.mode = me.mode /\ me'.kind = me.kind /\ me'.mc = me.mc
       /\ me'.rsDone = me.rsDone /\ me'.got = me.got /\ me'.part = me.part /\ me'.bad = me.bad
  BY <1>2, <1>7 DEF Caller
<1>14. me.got = NoPkt /\ me.part = NoPkt /\ ~me.bad
  BY <1>1, <1>2 DEF Manner, ReadPCs
<1>15. Following(me, y, n) =>
          /\ Resting(y, n)
          /\ y.st = "ready" => /\ y.seq + me.left <= MaxFrames
                               /\ 1 <= Len(Stream(y, n)) => y.seq = 0 /\ me.left = 1
  BY <1>1, <1>9 DEF Following, Paused, ReadPCs
<1>16. CASE me.left = 1
  <2>1. p = me.then /\ me'.pc \notin {"skip", "next", "rows", "columns", "write"}
    BY <1>2, <1>8, <1>13, <1>16 DEF HandshakePCs, ReplyPCs
  <2>2. Manner(me')
    BY <1>2, <1>13, <1>14, <2>1 DEF Manner
  <2>3. me.then \in {"ok", "prepared", "header"} => y.st = "ready"
    BY <1>2, <1>9 DEF HandshakePCs
  <2>4. Following(me, y, n) => Following(me', x, m)
    BY <1>1, <1>2, <1>3, <1>5, <1>6, <1>8, <1>11, <1>12, <1>13, <1>14, <1>15, <1>16, <2>1, <2>3, LastFrame
  <2> QED
    BY <1>2, <1>10, <1>11, <1>12, <1>13, <2>2, <2>4, MineAccounted
<1>17. CASE me.left # 1
  <2>1. me'.pc = "write" /\ me.left \in Nat \ {0, 1} /\ me'.left = me.left - 1
    BY <1>2, <1>8, <1>13, <1>17
  <2>2. me.then \notin HandshakePCs /\ y.st = "ready"
    BY <1>1, <1>2, <1>9, <1>17 DEF Manner
  <2>3. Manner(me')
    BY <1>1, <1>2, <1>13, <1>14, <2>1, <2>2 DEF Manner
  <2>4. Following(me, y, n) => Following(me', x, m)
    BY <1>1, <1>2, <1>3, <1>5, <1>6, <1>8, <1>11, <1>12, <1>13, <1>14, <1>15, <1>17, <2>1, <2>2, NextFrame
  <2> QED
    BY <1>2, <1>10, <1>11, <1>12, <1>13, <2>3, <2>4, MineAccounted
<1> QED
  BY <1>16, <1>17
-----------------------------------------------------------------------------
(* Steps between two packets                                                *)

\* The caller p goes on where m was, with nothing in hand; the bytes of the
\* connection are the same.
Resumes(m, p) == p.n = m.n /\ p.got = NoPkt /\ p.part = NoPkt /\ ~p.bad

Still(x, y) ==
    /\ y.buf = x.buf /\ y.st = x.st /\ y.closed = x.closed
    /\ y.deprecateEOF = x.deprecateEOF

LEMMA ReadOn ==
    ASSUME NEW m, NEW p, NEW x, NEW y, NEW n, Receiving(m, x, n), Resumes(m, p), Still(x, y),
           y.seq = x.seq, Rest(p, Stream(x, n), ~x.deprecateEOF),
           ~(p.pc = "header" /\ p.mode = "query")
    PROVE  Receiving(p, y, n)
<1>1. Stream(y, n) = Stream(x, n) /\ (~y.deprecateEOF <=> ~x.deprecateEOF)
  BY DEF Stream, Still
<1>2. ~IsErr(p.got)
  BY DEF Resumes, IsErr, NoPkt, Errors
<1>3. y.deprecateEOF = x.deprecateEOF
  BY DEF Still
<1> QED
  BY <1>1, <1>2, <1>3 DEF Receiving, Resumes

LEMMA ReadOut ==
    ASSUME NEW m, NEW x, NEW y, NEW n, Receiving(m, x, n), Still(x, y), Len(Stream(x, n)) = 0
    PROVE  Resting(y, n)
<1>1. Stream(y, n) = Stream(x, n) /\ ~(1 <= 0)
  BY DEF Stream, Still
<1> QED
  BY <1>1 DEF Receiving, Resting

LEMMA StillResting ==
    ASSUME NEW x, NEW y, NEW n, Resting(x, n), Still(x, y), y.more = x.more
    PROVE  Resting(y, n)
<1>1. Stream(y, n) = Stream(x, n) /\ y.st = x.st
  BY DEF Stream, Still
<1> QED
  BY <1>1 DEF Resting

LEMMA GotHearing ==
    ASSUME NEW m, NEW x, NEW n, Following(m, x, n), m.pc \in ReadPCs, m.got # NoPkt
    PROVE  Receiving(m, x, n) \/ Failing(m, x)
BY DEF Following, Hearing, Waiting, Mixed, Start, Gone

\* The call reads nothing more of a connection that is closed, or at rest.
LEMMA RestingFollowing ==
    ASSUME NEW p, NEW y, NEW n, y.closed \/ (Resting(y, n) /\ ~Paused(p)),
           p.pc \notin ReadPCs \cup {"write"}
    PROVE  Following(p, y, n)
BY DEF Following

LEMMA PausedFollowing ==
    ASSUME NEW p, NEW y, NEW n, Receiving(p, y, n), p.rsDone => y.more,
           p.pc \in {"rows", "drain", "finish"}, Paused(p)
    PROVE  Following(p, y, n)
BY DEF Following, ReadPCs

\* A packet that is read leaves nothing of the answer, or what p reads next.
LEMMA ReadFollowing ==
    ASSUME NEW m, NEW p, NEW x, NEW y, NEW n, Following(m, x, n), m.pc \in ReadPCs, m.got # NoPkt,
           Resumes(m, p), Still(x, y), y.seq = x.seq, p.pc # "write",
           Failing(m, x) => p.pc \notin ReadPCs,
           Receiving(m, x, n) =>
              \/ Len(Stream(x, n)) = 0 /\ p.pc \notin ReadPCs /\ ~Paused(p)
              \/ /\ p.pc \in ReadPCs \/ (Paused(p) /\ (p.rsDone => y.more))
                 /\ ~(p.pc = "header" /\ p.mode = "query")
                 /\ Rest(p, Stream(x, n), ~x.deprecateEOF)
    PROVE  Following(p, y, n)
<1>1. CASE Failing(m, x)
  <2>1. y.closed
    BY <1>1 DEF Failing, Still
  <2> QED
    BY <1>1, <2>1, RestingFollowing
<1>2. CASE Receiving(m, x, n)
  <2>1. CASE Len(Stream(x, n)) = 0 /\ p.pc \notin ReadPCs /\ ~Paused(p)
    BY <1>2, <2>1, ReadOut, RestingFollowing
  <2>2. CASE /\ p.pc \in ReadPCs \/ (Paused(p) /\ (p.rsDone => y.more))
             /\ ~(p.pc = "header" /\ p.mode = "query")
             /\ Rest(p, Stream(x, n), ~x.deprecateEOF)
    <3>1. Receiving(p, y, n)
      BY <1>2, <2>2, ReadOn
    <3>2. CASE p.pc \in ReadPCs
      BY <3>1, <3>2, HearingFollowing DEF Hearing
    <3>3. CASE Paused(p) /\ (p.rsDone => y.more)
      BY <3>1, <3>3, PausedFollowing DEF Paused
    <3> QED
      BY <2>2, <3>2, <3>3
  <2> QED
    BY <1>2, <2>1, <2>2
<1> QED
  BY <1>1, <1>2, GotHearing

\* A step of a session is about the caller's connection.
LEMMA SessionAccounted ==
    ASSUME ReplyInv, SessionAction, ~conn'[me.c].long => ~conn[me.c].long,
           Following(me, conn[me.c], net[me.c]) /\ ~conn'[me.c].long =>
              Following(me', conn'[me.c], net[me.c])
    PROVE  \A d \in Conn : Accounted(d)'
<1>1. Touched /\ Onward /\ me.c \in Conn /\ St = "ready"
  BY SessionTouches, ReplyFacts
<1>2. UNCHANGED net
  BY DEF SessionAction, Send, SendExecute, WriteFailed, ReadResultOK, ReadHeader,
     ReadPrepared, ReadColumn, SkipEof, SkipRow, NextRow, ReadTextRow, ReadBinaryRow,
     AwaitDone, StopScanning, Drain, CloseStmt, EndTx
<1>3. Elsewhere(me.c)
  BY <1>1, <1>2 DEF Touched, Elsewhere
<1>4. me'.c = me.c
  BY <1>1 DEF Onward, Mine
<1>5. ~conn[me.c].long => Following(me, conn[me.c], net[me.c])
  BY <1>1 DEF ReplyInv, Accounted, St
<1> QED
  BY <1>1, <1>2, <1>3, <1>4, <1>5, MineAccounted
LEMMA MoreEffect ==
    ASSUME TypeOK, me.c \in Conn, NEW b \in BOOLEAN, SetMore(b)
    PROVE  /\ Still(conn[me.c], conn'[me.c]) /\ conn'[me.c].seq = conn[me.c].seq
           /\ conn'[me.c].long = conn[me.c].long /\ conn'[me.c].more = b
<1> DEFINE y == conn[me.c]
           x == [y EXCEPT !.more = b]
<1>1. conn' = [conn EXCEPT ![me.c] = x] /\ y \in Connection
  BY DEF SetMore, TypeOK
<1> HIDE DEF y
<1>2. /\ x.st = y.st /\ x.buf = y.buf /\ x.seq = y.seq /\ x.deprecateEOF = y.deprecateEOF
      /\ x.more = b /\ x.long = y.long /\ x.closed = y.closed
  BY <1>1 DEF Connection
<1> HIDE DEF x
<1>3. conn'[me.c] = x
  BY <1>1 DEF TypeOK
<1> QED
  BY <1>2, <1>3 DEF Still, y

LEMMA StillItself == \A x : Still(x, x)
BY DEF Still

LEMMA EndFields ==
    ASSUME me \in Caller, NEW e, End(e)
    PROVE  /\ me'.pc = "finish" /\ me'.then \in {"closeStmt", "release"} /\ Resumes(me, me')
           /\ me'.mode = me.mode /\ me'.kind = me.kind /\ ~Paused(me')
<1> DEFINE e2 == IF me.err = "none" THEN e ELSE me.err
           t == IF me.kind \in Stmt /\ me.cmd \in {"stmt", "execute", "longData"}
                THEN "closeStmt" ELSE "release"
<1>1. me' = [me EXCEPT !.pc = "finish", !.got = NoPkt, !.part = NoPkt, !.bad = FALSE,
                       !.err = e2, !.then = t]
  BY DEF End
<1>2. t \in {"closeStmt", "release"}
  OBVIOUS
<1> HIDE DEF e2, t
<1>3. /\ me'.pc = "finish" /\ me'.then = t /\ me'.got = NoPkt /\ me'.part = NoPkt /\ me'.bad = FALSE
      /\ me'.n = me.n /\ me'.mode = me.mode /\ me'.kind = me.kind
  BY <1>1 DEF Caller
<1> QED
  BY <1>2, <1>3 DEF Resumes, Paused

LEMMA CloseRowsFields ==
    ASSUME me \in Caller, NEW e, CloseRows(e)
    PROVE  /\ me'.pc = "finish" /\ me'.then = "drain" /\ Resumes(me, me')
           /\ me'.mode = me.mode /\ me'.kind = me.kind /\ me'.mc = me.mc /\ me'.rsDone = me.rsDone
<1> DEFINE e2 == IF me.err = "none" THEN e ELSE me.err
<1>1. me' = [me EXCEPT !.pc = "finish", !.then = "drain", !.got = NoPkt, !.part = NoPkt,
                       !.bad = FALSE, !.err = e2]
  BY DEF CloseRows
<1> HIDE DEF e2
<1>2. /\ me'.pc = "finish" /\ me'.then = "drain" /\ me'.got = NoPkt /\ me'.part = NoPkt /\ me'.bad = FALSE
      /\ me'.n = me.n /\ me'.mode = me.mode /\ me'.kind = me.kind /\ me'.mc = me.mc
      /\ me'.rsDone = me.rsDone
  BY <1>1 DEF Caller
<1> QED
  BY <1>2 DEF Resumes

\* In most places nothing more is claimed of the call.
LEMMA PlainManner ==
    ASSUME NEW m, NEW p, Manner(m), p.got = NoPkt, p.part = NoPkt, ~p.bad, p.mode = m.mode,
           p.kind = m.kind, p.pc \notin {"skip", "rows", "next", "columns", "write"}
    PROVE  Manner(p)
BY DEF Manner

LEMMA EndManner ==
    ASSUME me \in Caller, Manner(me), NEW e, End(e)
    PROVE  Manner(me')
BY EndFields, PlainManner DEF Resumes

\* A packet in hand has been assembled.
LEMMA HandFull ==
    ASSUME NEW m, Manner(m), m.got # NoPkt
    PROVE  m.part = NoPkt /\ ~m.bad
BY DEF Manner

\* Of an answer that is over nothing is left.
LEMMA OverRest ==
    ASSUME NEW m, NEW s, NEW eof, Rest(m, s, eof), m.got # NoPkt, Manner(m), s \in Seq(ServerFrame),
           \/ m.pc = "ok"
           \/ m.pc = "prepared" /\ m.got.kind = "ERR"
           \/ m.pc \in {"header", "skip", "next"} /\ m.got.kind \in {"OK", "ERR", "END"}
    PROVE  Len(s) = 0
<1>1. CASE m.pc = "ok"
  <2>1. Len(s) + 1 <= 1 /\ Len(s) \in Nat
    BY <1>1, RestKinds DEF PingRest, Taken
  <2> QED
    BY <2>1
<1>2. CASE m.pc = "prepared" /\ m.got.kind = "ERR"
  BY <1>2, RestKinds DEF PrepareRest, Preparing
<1>3. CASE m.pc \in {"header", "skip", "next"} /\ m.got.kind \in {"OK", "ERR", "END"}
  BY <1>3, RestKinds DEF ResultRest, JustRead, Continues, Preparing, HandshakeReads
<1> QED
  BY <1>1, <1>2, <1>3

\* What comes after a result set that is not the last, or after a row.
LEMMA MoreRest ==
    ASSUME NEW m, NEW s, NEW eof, Rest(m, s, eof), m.got # NoPkt, s \in Seq(ServerFrame),
           m.pc \in {"header", "skip", "next"}
    PROVE  /\ WellFormed(s, eof)
           /\ m.got.kind \in {"OK+", "END+"} => HeadNext(s)
           /\ m.got.kind = "ROW" => RowNext(s)
           /\ m.got.kind = "HDR" => Metadata(s, 0, Columns, eof)
<1>1. WellFormed(s, eof) /\ Continues(s, 0, m.got.kind, "part", eof)
  BY RestKinds DEF ResultRest, JustRead, Preparing, HandshakeReads
<1>2. 0 + 1 = 1
  OBVIOUS
<1> QED
  BY <1>1, <1>2 DEF Continues, HeadNext, RowNext

LEMMA ReadResultOKAccounted ==
    ASSUME ReplyInv, ReadResultOK
    PROVE  Manner(me') /\ \A d \in Conn : Accounted(d)'
<1>1. /\ TypeOK /\ me \in Caller /\ me.c \in Conn /\ me.pc = "ok" /\ me.pc \in ReadPCs /\ me.got # NoPkt
      /\ Manner(me)
  BY ReplyFacts, SessionFacts DEF ReadResultOK, Ready, ReadPCs, SessionPCs, ReplyPCs
<1>2. PICK e : End(e)
  BY DEF ReadResultOK
<1>3. /\ Still(conn[me.c], conn'[me.c]) /\ conn'[me.c].seq = conn[me.c].seq
      /\ conn'[me.c].long = conn[me.c].long
  BY <1>1, MoreEffect, GotFacts, StillItself DEF ReadResultOK
<1>4. /\ me'.pc = "finish" /\ Resumes(me, me') /\ ~Paused(me') /\ Manner(me')
  BY <1>1, <1>2, EndFields, EndManner
<1>5. Stream(conn[me.c], net[me.c]) \in Seq(ServerFrame)
  BY <1>1, StreamType DEF TypeOK
<1>6. Receiving(me, conn[me.c], net[me.c]) => Len(Stream(conn[me.c], net[me.c])) = 0
  BY <1>1, <1>5, OverRest DEF Receiving
<1>7. Following(me, conn[me.c], net[me.c]) => Following(me', conn'[me.c], net[me.c])
  BY <1>1, <1>3, <1>4, <1>6, ReadFollowing DEF ReadPCs
<1> QED
  BY <1>3, <1>4, <1>7, SessionAccounted DEF SessionAction
LEMMA DiscardFields ==
    ASSUME me \in Caller, Manner(me), me.got # NoPkt, NEW more \in BOOLEAN, DiscardResults(more)
    PROVE  /\ Resumes(me, me') /\ Manner(me') /\ ~Paused(me')
           /\ more => me'.pc = "header" /\ me'.mode = me.mode
           /\ ~more => me'.pc \in {"send", "finish"}
<1>1. me.part = NoPkt /\ ~me.bad
  BY HandFull
<1>2. \/ more /\ me' = [me EXCEPT !.pc = "header", !.got = NoPkt, !.rsDone = FALSE]
      \/ ~more /\ me' = [me EXCEPT !.pc = "send", !.got = NoPkt]
      \/ ~more /\ me' = [me EXCEPT !.pc = "finish", !.then = "inTx", !.got = NoPkt]
      \/ ~more /\ End("none")
  BY DEF DiscardResults
<1>3. CASE more /\ me' = [me EXCEPT !.pc = "header", !.got = NoPkt, !.rsDone = FALSE]
  <2>1. /\ me'.pc = "header" /\ me'.got = NoPkt /\ me'.part = me.part /\ me'.bad = me.bad
        /\ me'.n = me.n /\ me'.mode = me.mode /\ me'.kind = me.kind
    BY <1>3 DEF Caller
  <2> QED
    BY <1>1, <1>3, <2>1, PlainManner, ZenonT(60) DEF Resumes, Paused
<1>4. CASE ~more /\ me' = [me EXCEPT !.pc = "send", !.got = NoPkt]
  <2>1. /\ me'.pc = "send" /\ me'.got = NoPkt /\ me'.part = me.part /\ me'.bad = me.bad
        /\ me'.n = me.n /\ me'.mode = me.mode /\ me'.kind = me.kind
    BY <1>4 DEF Caller
  <2> QED
    BY <1>1, <1>4, <2>1, PlainManner, ZenonT(30) DEF Resumes, Paused
<1>5. CASE ~more /\ me' = [me EXCEPT !.pc = "finish", !.then = "inTx", !.got = NoPkt]
  <2>1. /\ me'.pc = "finish" /\ me'.then = "inTx" /\ me'.got = NoPkt /\ me'.part = me.part
        /\ me'.bad = me.bad /\ me'.n = me.n /\ me'.mode = me.mode /\ me'.kind = me.kind
    BY <1>5 DEF Caller
  <2> QED
    BY <1>1, <1>5, <2>1, PlainManner DEF Resumes, Paused
<1>6. CASE ~more /\ End("none")
  BY <1>6, EndFields, EndManner
<1> QED
  BY <1>2, <1>3, <1>4, <1>5, <1>6

\* A result set is over; the next one's header is read, or nothing.
LEMMA DiscardFollowing ==
    ASSUME TypeOK, Manner(me), me.pc \in {"header", "skip"}, me.c \in Conn,
           me.got.kind \in {"OK", "OK+", "END", "END+"}, me.mode # "query",
           SetMore(More), DiscardResults(More), Following(me, conn[me.c], net[me.c])
    PROVE  Following(me', conn'[me.c], net[me.c])
<1> DEFINE x == conn[me.c]
           y == conn'[me.c]
           n == net[me.c]
           s == Stream(x, n)
           eof == ~x.deprecateEOF
<1>1. me \in Caller /\ me.pc \in ReadPCs /\ me.got # NoPkt /\ x \in Connection /\ n \in Socket
  <2>1. me.got # NoPkt
    BY DEF NoPkt
  <2>2. me.pc \in ReadPCs
    BY DEF ReadPCs
  <2> QED
    BY <2>1, <2>2 DEF TypeOK
<1>2. More \in BOOLEAN
  BY DEF More
<1>3. Still(x, y) /\ y.seq = x.seq
  BY <1>2, MoreEffect
<1>4. /\ Resumes(me, me') /\ Manner(me') /\ ~Paused(me')
      /\ More => me'.pc = "header" /\ me'.mode = me.mode
      /\ ~More => me'.pc \in {"send", "finish"}
  BY <1>1, <1>2, DiscardFields
<1>5. s \in Seq(ServerFrame)
  BY <1>1, StreamType
<1>6. ~Failing(me, x)
  BY DEF Failing, IsErr, Errors
<1>7. Receiving(me, x, n) => Rest(me, s, eof)
  BY DEF Receiving
<1>8. More <=> me.got.kind \in {"OK+", "END+"}
  BY DEF More
<1> HIDE DEF x, y, n, s, eof
<1>9. CASE More
  <2>1. Receiving(me, x, n) => WellFormed(s, eof) /\ HeadNext(s)
    BY <1>1, <1>5, <1>7, <1>8, <1>9, MoreRest
  <2>2. WellFormed(s, eof) /\ HeadNext(s) => ResultRest(me', s, eof)
    BY <1>4, <1>9 DEF ResultRest, Unread, Resumes, ReadPCs
  <2>3. ResultRest(me', s, eof) => Rest(me', s, eof)
    BY <1>4, <1>9, RestKinds DEF Preparing, HandshakeReads
  <2>4. me'.pc \in ReadPCs /\ me'.pc # "write" /\ ~(me'.pc = "header" /\ me'.mode = "query")
    BY <1>4, <1>9 DEF ReadPCs
  <2> QED
    BY <1>1, <1>3, <1>4, <1>6, <2>1, <2>2, <2>3, <2>4, ReadFollowing DEF x, y, n, s, eof
<1>10. CASE ~More
  <2>1. Receiving(me, x, n) => Len(s) = 0
    BY <1>1, <1>5, <1>7, <1>8, <1>10, OverRest
  <2>2. me'.pc \notin ReadPCs /\ me'.pc # "write"
    BY <1>4, <1>10 DEF ReadPCs
  <2> QED
    BY <1>1, <1>3, <1>4, <2>1, <2>2, ReadFollowing DEF x, y, n, s, eof
<1> QED
  BY <1>9, <1>10

\* A reading that failed ends the operation.
LEMMA FailedFollowing ==
    ASSUME TypeOK, Manner(me), me.pc \in ReadPCs \ HandshakeReads, me.c \in Conn, me.got # NoPkt,
           NEW e, End(e), Still(conn[me.c], conn'[me.c]), conn'[me.c].seq = conn[me.c].seq,
           IsErr(me.got) \/ (me.got.kind = "ERR" /\ me.pc \in {"prepared", "header", "skip"}),
           Following(me, conn[me.c], net[me.c])
    PROVE  Following(me', conn'[me.c], net[me.c])
<1> DEFINE x == conn[me.c]
           n == net[me.c]
           s == Stream(x, n)
<1>1. me \in Caller /\ x \in Connection /\ n \in Socket /\ s \in Seq(ServerFrame)
  BY StreamType DEF TypeOK
<1>2. me'.pc = "finish" /\ Resumes(me, me') /\ ~Paused(me')
  BY <1>1, EndFields
<1>3. Receiving(me, x, n) => ~IsErr(me.got) /\ Rest(me, s, ~x.deprecateEOF)
  BY DEF Receiving
<1> HIDE DEF s
<1>4. Receiving(me, x, n) => Len(s) = 0
  BY <1>1, <1>3, OverRest
<1> QED
  BY <1>2, <1>4, ReadFollowing DEF s, ReadPCs
\* The rows of a prepared query whose first result has none have no connection:
\* the result sets that may follow stay unread, numbered from 2.
LEMMA LeftUnread ==
    ASSUME NEW x \in Connection, NEW y \in Connection, NEW n \in Socket, NEW m, Manner(m),
           Receiving(m, x, n), m.pc = "header", m.mode = "query", m.got # NoPkt,
           m.got.kind \in {"OK", "OK+"}, Still(x, y), x.st = "ready",
           y.more = (m.got.kind = "OK+")
    PROVE  Resting(y, n)
<1> DEFINE s == Stream(x, n)
           eof == ~x.deprecateEOF
<1>1. s \in Seq(ServerFrame) /\ Rest(m, s, eof) /\ ~Asked(n) /\ Numbered(s, x.seq, m.n) /\ x.seq # 1
  BY StreamType DEF Receiving
<1> HIDE DEF s, eof
<1>2. CASE m.got.kind = "OK"
  <2>1. Len(s) = 0
    BY <1>1, <1>2, OverRest
  <2> QED
    BY <2>1, ReadOut DEF s
<1>3. CASE m.got.kind = "OK+"
  <2>1. WellFormed(s, eof) /\ HeadNext(s)
    BY <1>1, <1>3, MoreRest
  <2>2. 1 <= Len(s) => s[1].kind \in HeadKinds /\ 1 \in DOMAIN s /\ s[1] \in ServerFrame
    BY <1>1, <2>1 DEF HeadNext
  <2>3. 1 <= Len(s) => Fits(s[1]) /\ Empty(s[1])
    BY <2>1, <2>2 DEF WellFormed
  <2>4. 1 <= Len(s) => s[1].size = "part"
    BY <2>2, <2>3 DEF Fits, Empty, HeadKinds, ServerFrame, Size
  <2>5. 1 <= Len(s) => s[1].seq # 1
    BY <1>1 DEF Numbered
  <2>6. 1 <= Len(s) => Stray(s, 1)
    BY <2>4, <2>5 DEF Stray
  <2>7. Stream(y, n) = s
    BY DEF Stream, Still, s
  <2>8. y.st = "ready" /\ y.more
    BY <1>3 DEF Still
  <2> QED
    BY <1>1, <2>6, <2>7, <2>8 DEF Resting
<1> QED
  BY <1>2, <1>3

LEMMA ReadHeaderAccounted ==
    ASSUME ReplyInv, TypeOK', ReadHeader
    PROVE  Manner(me') /\ \A d \in Conn : Accounted(d)'
<1> DEFINE x == conn[me.c]
           y == conn'[me.c]
           n == net[me.c]
           s == Stream(x, n)
           eof == ~x.deprecateEOF
<1>1. /\ TypeOK /\ me \in Caller /\ me.c \in Conn /\ me.pc = "header" /\ me.got # NoPkt
      /\ Manner(me) /\ x.st = "ready"
  BY ReplyFacts, SessionFacts DEF ReadHeader, Ready, SessionPCs, ReplyPCs, St
<1>2. x \in Connection /\ y \in Connection /\ n \in Socket
  BY <1>1 DEF TypeOK
<1>3. me.pc \in ReadPCs \ HandshakeReads /\ me.part = NoPkt /\ ~me.bad
  BY <1>1, HandFull DEF ReadPCs, HandshakeReads
<1>4. s \in Seq(ServerFrame)
  BY <1>2, StreamType
<1>5. SessionAction
  BY DEF SessionAction
<1>6. Receiving(me, x, n) => Rest(me, s, eof)
  BY DEF Receiving
<1>7. me.mode \notin {"params", "prepare"}
  BY <1>1, ReplyFacts DEF Course, At
<1>8. \/ Failed /\ End(Error) /\ (SetMore(FALSE) \/ UNCHANGED conn)
      \/ /\ me.got.kind \in {"OK", "OK+"} /\ SetMore(More)
         /\ \/ me.mode = "query" /\ NoRows
            \/ me.mode \in {"query", "loop"} /\ me.kind = "query" /\ NextNotEmptyResultSet(More)
            \/ me.mode # "query" /\ DiscardResults(More)
      \/ /\ me.got.kind = "HDR" /\ UNCHANGED conn
         /\ me' = [me EXCEPT !.pc = "columns", !.left = Columns, !.got = NoPkt]
  BY <1>1 DEF ReadHeader, Manner
<1> HIDE DEF x, y, n, s, eof
<1>9. CASE Failed /\ End(Error) /\ (SetMore(FALSE) \/ UNCHANGED conn)
  <2>1. Still(x, y) /\ y.seq = x.seq /\ y.long = x.long
    BY <1>1, <1>9, MoreEffect, StillItself DEF x, y
  <2>2. Following(me, x, n) => Following(me', y, n)
    BY <1>1, <1>3, <1>9, <2>1, FailedFollowing DEF Failed, x, y, n
  <2> QED
    BY <1>1, <1>5, <1>9, <2>1, <2>2, EndManner, SessionAccounted DEF x, y, n
<1>10. CASE /\ me.got.kind \in {"OK", "OK+"} /\ SetMore(More)
            /\ \/ me.mode = "query" /\ NoRows
               \/ me.mode \in {"query", "loop"} /\ me.kind = "query" /\ NextNotEmptyResultSet(More)
               \/ me.mode # "query" /\ DiscardResults(More)
  <2>1. More \in BOOLEAN /\ (More <=> me.got.kind = "OK+")
    BY <1>10 DEF More
  <2>2. Still(x, y) /\ y.seq = x.seq /\ y.long = x.long /\ y.more = More
    BY <1>1, <1>10, <2>1, MoreEffect DEF x, y
  <2>3. ~IsErr(me.got) /\ me.got.kind # "ERR"
    BY <1>10 DEF IsErr, Errors
  <2>4. Following(me, x, n) => Receiving(me, x, n)
    BY <1>1, <1>3, <2>3, GotHearing DEF Failing
  <2>5. CASE me.mode # "query" /\ DiscardResults(More)
    <3>1. Manner(me')
      BY <1>1, <2>1, <2>5, DiscardFields
    <3>2. Following(me, x, n) => Following(me', y, n)
      BY <1>1, <1>10, <2>5, DiscardFollowing DEF x, y, n
    <3> QED
      BY <1>5, <2>2, <3>1, <3>2, SessionAccounted DEF x, y, n
  <2>6. CASE \/ me.mode = "query" /\ NoRows
             \/ me.mode \in {"query", "loop"} /\ me.kind = "query" /\ ~More /\ NoRows
    <3>1. me' = [me EXCEPT !.pc = "rows", !.got = NoPkt, !.rsDone = TRUE, !.mc = FALSE]
      BY <2>6 DEF NoRows
    <3>2. /\ me'.pc = "rows" /\ me'.got = NoPkt /\ me'.part = me.part /\ me'.bad = me.bad /\ me'.n = me.n
          /\ me'.mode = me.mode /\ me'.kind = me.kind /\ me'.rsDone = TRUE /\ me'.mc = FALSE
      BY <1>1, <3>1 DEF Caller
    <3>3. Manner(me') /\ ~Paused(me')
      BY <1>1, <1>3, <3>2 DEF Manner, Paused
    <3>4. Receiving(me, x, n) => Resting(y, n)
      <4>1. CASE me.mode = "query"
        <5>1. y.more = (me.got.kind = "OK+")
          BY <2>1, <2>2
        <5> QED
          BY <1>1, <1>2, <1>10, <2>2, <4>1, <5>1, LeftUnread DEF x
      <4>2. CASE ~More
        <5>1. Receiving(me, x, n) => Len(s) = 0
          BY <1>1, <1>4, <1>6, <1>10, <2>1, <4>2, OverRest
        <5> QED
          BY <2>2, <5>1, ReadOut DEF s
      <4> QED
        BY <2>6, <4>1, <4>2
    <3>5. Following(me, x, n) => Following(me', y, n)
      BY <2>4, <3>2, <3>3, <3>4, RestingFollowing DEF ReadPCs
    <3> QED
      BY <1>5, <2>2, <3>3, <3>5, SessionAccounted DEF x, y, n
  <2>7. CASE /\ me.mode \in {"query", "loop"} /\ me.kind = "query" /\ More
             /\ me' = [me EXCEPT !.mode = "loop", !.got = NoPkt, !.rsDone = FALSE, !.mc = FALSE]
    <3>1. me' = [me EXCEPT !.mode = "loop", !.pc = "header", !.got = NoPkt, !.rsDone = FALSE, !.mc = FALSE]
      BY <1>1, <2>7 DEF Caller
    <3>2. /\ me'.pc = "header" /\ me'.got = NoPkt /\ me'.part = me.part /\ me'.bad = me.bad /\ me'.n = me.n
          /\ me'.mode = "loop" /\ me'.kind = me.kind
      BY <1>1, <3>1 DEF Caller
    <3>3. Manner(me') /\ Resumes(me, me') /\ me'.pc \in ReadPCs
      BY <1>3, <2>7, <3>2 DEF Manner, Resumes, ReadPCs
    <3>4. Receiving(me, x, n) => Rest(me', s, eof)
      <4>1. Receiving(me, x, n) => WellFormed(s, eof) /\ HeadNext(s)
        BY <1>1, <1>4, <1>6, <2>1, <2>7, MoreRest
      <4>2. WellFormed(s, eof) /\ HeadNext(s) => ResultRest(me', s, eof)
        BY <1>3, <3>2 DEF ResultRest, Unread, ReadPCs
      <4> QED
        BY <3>2, <4>1, <4>2, RestKinds DEF Preparing, HandshakeReads
    <3>5. Following(me, x, n) => Following(me', y, n)
      BY <1>1, <1>3, <2>2, <2>3, <3>2, <3>3, <3>4, ReadFollowing DEF s, eof, Failing
    <3> QED
      BY <1>5, <2>2, <3>3, <3>5, SessionAccounted DEF x, y, n
  <2>8. CASE ErrorOf(me.c) # "none" /\ End(ErrorOf(me.c))
    <3>1. y.closed
      BY <2>2, <2>8 DEF ErrorOf, Still, x
    <3>2. me'.pc = "finish"
      BY <2>8 DEF End
    <3>3. Following(me', y, n)
      BY <3>1, <3>2, RestingFollowing DEF ReadPCs, HandshakeReads
    <3> QED
      BY <1>1, <1>5, <2>2, <2>8, <3>3, EndManner, SessionAccounted DEF x, y, n
  <2> QED
    BY <1>10, <2>1, <2>5, <2>6, <2>7, <2>8 DEF NextNotEmptyResultSet
<1>11. CASE /\ me.got.kind = "HDR" /\ UNCHANGED conn
            /\ me' = [me EXCEPT !.pc = "columns", !.left = Columns, !.got = NoPkt]
  <2>1. /\ me'.pc = "columns" /\ me'.got = NoPkt /\ me'.part = me.part /\ me'.bad = me.bad /\ me'.n = me.n
        /\ me'.mode = me.mode /\ me'.kind = me.kind /\ me'.left = Columns
    BY <1>1, <1>11 DEF Caller
  <2>2. y = x
    BY <1>11 DEF x, y
  <2>3. Columns # 0
    OBVIOUS
  <2>4. Manner(me') /\ Resumes(me, me') /\ me'.pc \in ReadPCs
    BY <1>1, <1>3, <2>1, <2>3 DEF Manner, Resumes, ReadPCs
  <2>5. Receiving(me, x, n) => Rest(me', s, eof)
    <3>1. Receiving(me, x, n) => WellFormed(s, eof) /\ Metadata(s, 0, Columns, eof)
      BY <1>1, <1>4, <1>6, <1>11, MoreRest
    <3>2. WellFormed(s, eof) /\ Metadata(s, 0, Columns, eof) => ResultRest(me', s, eof)
      BY <1>3, <2>1 DEF ResultRest, Unread, ReadPCs
    <3> QED
      BY <1>7, <2>1, <3>1, <3>2, RestKinds DEF Preparing, HandshakeReads
  <2>6. ~Failing(me, x)
    BY <1>11 DEF Failing, IsErr, Errors
  <2>7. Following(me, x, n) => Following(me', y, n)
    BY <1>1, <1>3, <2>1, <2>2, <2>4, <2>5, <2>6, StillItself, ReadFollowing DEF s, eof
  <2> QED
    BY <1>5, <2>2, <2>4, <2>7, SessionAccounted DEF x, y, n
<1> QED
  BY <1>8, <1>9, <1>10, <1>11
\* A definition of the answer to a prepare is read.
LEMMA PrepareOn ==
    ASSUME NEW m \in Caller, NEW p, NEW s \in Seq(ServerFrame), NEW eof, eof = TRUE \/ eof = FALSE, PrepareRest(m, s, eof),
           m.got # NoPkt, p.got = NoPkt, p.part = NoPkt
    PROVE  /\ m.pc = "prepared" /\ p.pc = "columns" /\ p.mode = "params" /\ p.left = 1 =>
                 PrepareRest(p, s, eof)
           /\ m.pc = "columns" /\ p.pc = "columns" /\ m.mode \in {"params", "prepare"} /\ p.mode = m.mode
              /\ m.left \in Nat \ {0} /\ p.left = m.left - 1 => PrepareRest(p, s, eof)
           /\ m.pc = "columns" /\ p.pc = "eof" /\ m.mode \in {"params", "prepare"} /\ p.mode = m.mode
              /\ m.left = 1 /\ eof = TRUE => PrepareRest(p, s, eof)
           /\ m.pc = "eof" \/ (m.pc = "columns" /\ m.left = 1 /\ eof = FALSE) =>
                 /\ m.mode = "params" /\ p.pc = "columns" /\ p.mode = "prepare" /\ p.left = Columns =>
                       PrepareRest(p, s, eof)
                 /\ m.mode = "prepare" => Len(s) = 0
<1> DEFINE l == Len(s)
           c == Columns
<1>1. l \in Nat /\ c \in Nat
  OBVIOUS
<1>2. AllPart(s) /\ l + 1 <= ToPrepare(m, eof)
  BY DEF PrepareRest, Taken
<1> HIDE DEF c, l
<1>3. \A k : l <= ToPrepare(p, eof) /\ p.pc # "prepared" => PrepareRest(p, s, eof)
  <2>1. l + 0 = l
    BY <1>1
  <2> QED
    BY <1>2, <2>1 DEF PrepareRest, Taken, l
<1>4. CASE eof = TRUE
  <2>1. ToPrepare(m, eof) = CASE m.pc = "prepared" -> 2 + 2 * 1 + c
          [] m.pc = "columns" /\ m.mode = "params" -> m.left + 2 * 1 + c
          [] m.pc = "eof" /\ m.mode = "params" -> 2 * 1 + c
          [] m.pc = "columns" /\ m.mode = "prepare" -> m.left + 1
          [] OTHER -> 1
    BY <1>4 DEF ToPrepare, c
  <2>2. ToPrepare(p, eof) = CASE p.pc = "prepared" -> 2 + 2 * 1 + c
          [] p.pc = "columns" /\ p.mode = "params" -> p.left + 2 * 1 + c
          [] p.pc = "eof" /\ p.mode = "params" -> 2 * 1 + c
          [] p.pc = "columns" /\ p.mode = "prepare" -> p.left + 1
          [] OTHER -> 1
    BY <1>4 DEF ToPrepare, c
  <2>3. m.pc = "prepared" /\ p.pc = "columns" /\ p.mode = "params" /\ p.left = 1 =>
                 PrepareRest(p, s, eof)
    BY <1>1, <1>2, <1>3, <2>1, <2>2
  <2>4. m.pc = "columns" /\ p.pc = "columns" /\ m.mode \in {"params", "prepare"} /\ p.mode = m.mode
              /\ m.left \in Nat \ {0} /\ p.left = m.left - 1 => PrepareRest(p, s, eof)
    BY <1>1, <1>2, <1>3, <2>1, <2>2, SMTT(30)
  <2>5. m.pc = "columns" /\ p.pc = "eof" /\ m.mode \in {"params", "prepare"} /\ p.mode = m.mode
              /\ m.left = 1 /\ eof = TRUE => PrepareRest(p, s, eof)
    <3> SUFFICES ASSUME m.pc = "columns", p.pc = "eof", m.mode \in {"params", "prepare"}, p.mode = m.mode,
                        m.left = 1
                 PROVE  PrepareRest(p, s, eof)
      OBVIOUS
    <3>1. ToPrepare(m, eof) = IF m.mode = "params" THEN 1 + 2 * 1 + c ELSE 1 + 1
      BY <2>1
    <3>2. ToPrepare(p, eof) = IF m.mode = "params" THEN 2 * 1 + c ELSE 1
      BY <2>2
    <3>3. l <= ToPrepare(p, eof)
      BY <1>1, <1>2, <3>1, <3>2
    <3> QED
      BY <1>3, <3>3
  <2>6. m.pc = "eof" /\ m.mode = "params" /\ p.pc = "columns" /\ p.mode = "prepare" /\ p.left = Columns =>
                       PrepareRest(p, s, eof)
    BY <1>1, <1>2, <1>3, <2>1, <2>2 DEF c
  <2>7. m.pc = "eof" /\ m.mode = "prepare" => l = 0
    BY <1>1, <1>2, <2>1
  <2> QED
    BY <1>4, <2>3, <2>4, <2>5, <2>6, <2>7 DEF l
<1>5. CASE eof = FALSE
  <2>1. ToPrepare(m, eof) = CASE m.pc = "prepared" -> 2 + 2 * 0 + c
          [] m.pc = "columns" /\ m.mode = "params" -> m.left + 2 * 0 + c
          [] m.pc = "eof" /\ m.mode = "params" -> 2 * 0 + c
          [] m.pc = "columns" /\ m.mode = "prepare" -> m.left + 0
          [] OTHER -> 0
    BY <1>5 DEF ToPrepare, c
  <2>2. ToPrepare(p, eof) = CASE p.pc = "prepared" -> 2 + 2 * 0 + c
          [] p.pc = "columns" /\ p.mode = "params" -> p.left + 2 * 0 + c
          [] p.pc = "eof" /\ p.mode = "params" -> 2 * 0 + c
          [] p.pc = "columns" /\ p.mode = "prepare" -> p.left + 0
          [] OTHER -> 0
    BY <1>5 DEF ToPrepare, c
  <2>3. m.pc = "prepared" /\ p.pc = "columns" /\ p.mode = "params" /\ p.left = 1 =>
                 PrepareRest(p, s, eof)
    BY <1>1, <1>2, <1>3, <2>1, <2>2
  <2>4. m.pc = "columns" /\ p.pc = "columns" /\ m.mode \in {"params", "prepare"} /\ p.mode = m.mode
              /\ m.left \in Nat \ {0} /\ p.left = m.left - 1 => PrepareRest(p, s, eof)
    BY <1>1, <1>2, <1>3, <2>1, <2>2
  <2>6. m.pc \in {"eof", "columns"} /\ (m.pc = "columns" => m.left = 1)
           /\ m.mode = "params" /\ p.pc = "columns" /\ p.mode = "prepare" /\ p.left = Columns =>
                       PrepareRest(p, s, eof)
    BY <1>1, <1>2, <1>3, <2>1, <2>2 DEF c
  <2>7. m.pc \in {"eof", "columns"} /\ (m.pc = "columns" => m.left = 1) /\ m.mode = "prepare" => l = 0
    BY <1>1, <1>2, <2>1
  <2> QED
    BY <1>5, <2>3, <2>4, <2>6, <2>7 DEF l
<1> QED
  BY <1>4, <1>5

\* So is one of a result set.
LEMMA ColumnOn ==
    ASSUME NEW m, NEW p, NEW s \in Seq(ServerFrame), NEW eof, ResultRest(m, s, eof),
           m.pc \in {"columns", "eof"}, m.got # NoPkt, p.got = NoPkt, p.part = NoPkt
    PROVE  /\ m.pc = "columns" /\ p.pc = "columns" /\ p.left = m.left - 1 => ResultRest(p, s, eof)
           /\ m.pc = "columns" /\ m.left = 1 /\ p.pc = "eof" /\ eof = TRUE => ResultRest(p, s, eof)
           /\ m.pc = "eof" \/ (m.pc = "columns" /\ m.left = 1 /\ eof = FALSE) =>
                 (p.pc = "skip" \/ (p.pc = "rows" /\ ~p.rsDone) => ResultRest(p, s, eof))
<1>1. WellFormed(s, eof) /\ JustRead(m, s, eof)
  BY DEF ResultRest
<1>2. m.pc = "columns" => Metadata(s, 0, m.left - 1, eof)
  BY <1>1 DEF JustRead
<1>3. m.pc = "columns" /\ m.left = 1 => Metadata(s, 0, 0, eof)
  <2>1. 1 - 1 = 0
    OBVIOUS
  <2> QED
    BY <1>2, <2>1
<1>4. Metadata(s, 0, 0, FALSE) => RowNext(s)
  <2>1. 0 + 0 + 1 = 1
    OBVIOUS
  <2> QED
    BY <2>1 DEF Metadata, RowNext
<1>5. m.pc = "eof" => RowNext(s)
  BY <1>1 DEF JustRead
<1>6. m.pc = "eof" \/ (m.pc = "columns" /\ m.left = 1 /\ eof = FALSE) => RowNext(s)
  BY <1>3, <1>4, <1>5
<1>7. m.pc = "columns" /\ p.pc = "columns" /\ p.left = m.left - 1 => ResultRest(p, s, eof)
  BY <1>1, <1>2 DEF ResultRest, Unread, ReadPCs
<1>8. m.pc = "columns" /\ m.left = 1 /\ p.pc = "eof" /\ eof = TRUE => ResultRest(p, s, eof)
  BY <1>1, <1>3 DEF ResultRest, Unread, ReadPCs
<1>9. ASSUME m.pc = "eof" \/ (m.pc = "columns" /\ m.left = 1 /\ eof = FALSE),
             p.pc = "skip" \/ (p.pc = "rows" /\ ~p.rsDone)
      PROVE  ResultRest(p, s, eof)
  BY <1>1, <1>6, <1>9 DEF ResultRest, Unread, ReadPCs
<1> QED
  BY <1>7, <1>8, <1>9

\* One conclusion at a time.
LEMMA ParamsFirst ==
    ASSUME NEW m \in Caller, NEW p, NEW s \in Seq(ServerFrame), NEW eof, eof = TRUE \/ eof = FALSE, PrepareRest(m, s, eof),
           m.got # NoPkt, p.got = NoPkt, p.part = NoPkt,
           m.pc = "prepared", p.pc = "columns", p.mode = "params", p.left = 1
    PROVE  PrepareRest(p, s, eof)
<1> DEFINE l == Len(s)
           c == Columns
           e == IF eof THEN 1 ELSE 0
<1>1. l \in Nat /\ c \in Nat /\ e \in Nat
  OBVIOUS
<1>2. AllPart(s) /\ l + 1 <= ToPrepare(m, eof)
  BY DEF PrepareRest, Taken
<1>3. ToPrepare(m, eof) = 2 + 2 * e + c /\ ToPrepare(p, eof) = 1 + 2 * e + c
  BY DEF ToPrepare
<1>4. l + 0 = l
  BY <1>1
<1> HIDE DEF c, l, e
<1>5. l <= ToPrepare(p, eof)
  BY <1>1, <1>2, <1>3
<1>6. p.part = NoPkt /\ p.pc # "prepared" /\ Taken(p) = 0
  BY DEF Taken
<1>7. PrepareRest(p, s, eof) <=> AllPart(s) /\ l + 0 <= ToPrepare(p, eof)
  BY <1>6 DEF PrepareRest, l
<1> QED
  BY <1>2, <1>4, <1>5, <1>7

LEMMA ToColumn ==
    ASSUME NEW m \in Caller, NEW p, NEW s \in Seq(ServerFrame), NEW eof, eof = TRUE \/ eof = FALSE, PrepareRest(m, s, eof),
           m.got # NoPkt, p.got = NoPkt, p.part = NoPkt, m.mode \in {"params", "prepare"}, p.mode = m.mode,
           m.pc = "columns", p.pc = "columns", m.left \in Nat \ {0}, p.left = m.left - 1
    PROVE  PrepareRest(p, s, eof)
BY PrepareOn

LEMMA ToEof ==
    ASSUME NEW m \in Caller, NEW p, NEW s \in Seq(ServerFrame), NEW eof, eof = TRUE \/ eof = FALSE, PrepareRest(m, s, eof),
           m.got # NoPkt, p.got = NoPkt, p.part = NoPkt, m.mode \in {"params", "prepare"}, p.mode = m.mode,
           m.pc = "columns", p.pc = "eof", m.left = 1, eof = TRUE
    PROVE  PrepareRest(p, s, eof)
BY PrepareOn

LEMMA AfterParams ==
    ASSUME NEW m \in Caller, NEW p, NEW s \in Seq(ServerFrame), NEW eof, eof = TRUE \/ eof = FALSE, PrepareRest(m, s, eof),
           m.got # NoPkt, p.got = NoPkt, p.part = NoPkt, m.pc = "eof" \/ (m.pc = "columns" /\ m.left = 1 /\ eof = FALSE),
           m.mode = "params", p.pc = "columns", p.mode = "prepare", p.left = Columns
    PROVE  PrepareRest(p, s, eof)
BY PrepareOn

LEMMA ToRows ==
    ASSUME NEW m, NEW p, NEW s \in Seq(ServerFrame), NEW eof, ResultRest(m, s, eof),
           m.pc \in {"columns", "eof"}, m.got # NoPkt, p.got = NoPkt, p.part = NoPkt,
           m.pc = "eof" \/ (m.pc = "columns" /\ m.left = 1 /\ eof = FALSE),
           p.pc = "skip" \/ (p.pc = "rows" /\ ~p.rsDone)
    PROVE  ResultRest(p, s, eof)
BY ColumnOn

LEMMA LessColumns ==
    ASSUME NEW m, NEW p, NEW s \in Seq(ServerFrame), NEW eof, ResultRest(m, s, eof),
           m.pc = "columns", m.got # NoPkt, p.got = NoPkt, p.part = NoPkt, p.pc = "columns",
           p.left = m.left - 1
    PROVE  ResultRest(p, s, eof)
<1>1. WellFormed(s, eof) /\ Metadata(s, 0, m.left - 1, eof)
  BY DEF ResultRest, JustRead
<1>2. Unread(p, s, eof)
  BY <1>1 DEF Unread, ReadPCs
<1>3. ResultRest(p, s, eof) <=> WellFormed(s, eof) /\ Unread(p, s, eof)
  BY DEF ResultRest
<1> QED
  BY <1>1, <1>2, <1>3

LEMMA ToLastEof ==
    ASSUME NEW m, NEW p, NEW s \in Seq(ServerFrame), NEW eof, ResultRest(m, s, eof),
           m.pc = "columns", m.got # NoPkt, p.got = NoPkt, p.part = NoPkt, p.pc = "eof", m.left = 1,
           eof = TRUE
    PROVE  ResultRest(p, s, eof)
BY ColumnOn

\* The facts the steps that read an answer have in common.
LEMMA AnswerFacts ==
    ASSUME ReplyInv, me.pc \in ReadPCs \ HandshakeReads, me.got # NoPkt
    PROVE  /\ TypeOK /\ me \in Caller /\ me.c \in Conn /\ Manner(me) /\ me.part = NoPkt /\ ~me.bad
           /\ conn[me.c] \in Connection /\ net[me.c] \in Socket
           /\ Stream(conn[me.c], net[me.c]) \in Seq(ServerFrame)
           /\ Receiving(me, conn[me.c], net[me.c]) =>
                 ~IsErr(me.got) /\ Rest(me, Stream(conn[me.c], net[me.c]), ~conn[me.c].deprecateEOF)
<1>1. TypeOK /\ me \in Caller /\ me.c \in Conn /\ Manner(me)
  BY ReplyFacts, ReadingFacts
<1>2. conn[me.c] \in Connection /\ net[me.c] \in Socket
  BY <1>1 DEF TypeOK
<1>3. Stream(conn[me.c], net[me.c]) \in Seq(ServerFrame)
  BY <1>2, StreamType
<1> QED
  BY <1>1, <1>2, <1>3, HandFull DEF Receiving

LEMMA ReadPreparedAccounted ==
    ASSUME ReplyInv, ReadPrepared
    PROVE  Manner(me') /\ \A d \in Conn : Accounted(d)'
<1> DEFINE x == conn[me.c]
           n == net[me.c]
           s == Stream(x, n)
           eof == ~x.deprecateEOF
<1>1. me.pc = "prepared" /\ me.pc \in ReadPCs \ HandshakeReads /\ me.got # NoPkt /\ conn' = conn
  BY DEF ReadPrepared, Ready, ReadPCs, HandshakeReads
<1>2. /\ TypeOK /\ me \in Caller /\ me.c \in Conn /\ Manner(me) /\ me.part = NoPkt /\ ~me.bad
      /\ x \in Connection /\ n \in Socket /\ s \in Seq(ServerFrame)
      /\ Receiving(me, x, n) => ~IsErr(me.got) /\ Rest(me, s, eof)
  BY <1>1, AnswerFacts
<1>3. SessionAction
  BY DEF SessionAction
<1>4. \/ Failed /\ End(Error)
      \/ ~Failed /\ me' = [me EXCEPT !.pc = "columns", !.left = 1, !.mode = "params", !.got = NoPkt]
  BY DEF ReadPrepared
<1>5. (eof = TRUE \/ eof = FALSE) /\ me \in Caller /\ s \in Seq(ServerFrame) /\ me.part = NoPkt
  BY <1>2
<1> HIDE DEF x, n, s, eof
<1>6. CASE Failed /\ End(Error)
  <2>1. Following(me, x, n) => Following(me', x, n)
    BY <1>1, <1>2, <1>6, StillItself, FailedFollowing DEF Failed, x, n
  <2> QED
    BY <1>1, <1>2, <1>3, <1>6, <2>1, EndManner, SessionAccounted DEF x, n
<1>7. CASE ~Failed /\ me' = [me EXCEPT !.pc = "columns", !.left = 1, !.mode = "params", !.got = NoPkt]
  <2>1. /\ me'.pc = "columns" /\ me'.got = NoPkt /\ me'.part = me.part /\ me'.bad = me.bad /\ me'.n = me.n
        /\ me'.mode = "params" /\ me'.kind = me.kind /\ me'.left = 1
    BY <1>2, <1>7 DEF Caller
  <2>2. Manner(me') /\ Resumes(me, me') /\ me'.pc \in ReadPCs
    BY <1>2, <2>1 DEF Manner, Resumes, ReadPCs
  <2>3. Receiving(me, x, n) => Rest(me', s, eof)
    <3>1. Receiving(me, x, n) => PrepareRest(me, s, eof)
      BY <1>1, <1>2, RestKinds DEF Preparing
    <3>2. ASSUME PrepareRest(me, s, eof)
          PROVE  PrepareRest(me', s, eof)
      <4>1. me.pc = "prepared" /\ me.got # NoPkt /\ me'.got = NoPkt /\ me'.part = NoPkt
        BY <1>1, <1>5, <2>1
      <4> QED
        BY <1>5, <2>1, <3>2, <4>1, ParamsFirst
    <3> QED
      BY <2>1, <3>1, <3>2, RestKinds DEF Preparing
  <2>4. ~Failing(me, x)
    BY <1>7 DEF Failing, Failed
  <2>5. Following(me, x, n) => Following(me', x, n)
    BY <1>1, <1>2, <2>1, <2>2, <2>3, <2>4, StillItself, ReadFollowing DEF s, eof
  <2> QED
    BY <1>1, <1>3, <2>2, <2>5, SessionAccounted DEF x, n
<1> QED
  BY <1>4, <1>6, <1>7

LEMMA AfterColumnsFollowing ==
    ASSUME ReplyInv, me.pc \in {"columns", "eof"}, me.got # NoPkt, ~IsErr(me.got), AfterColumns,
           me.pc = "columns" => me.left = 1 /\ conn[me.c].deprecateEOF
    PROVE  /\ Manner(me')
           /\ Following(me, conn[me.c], net[me.c]) => Following(me', conn[me.c], net[me.c])
<1> DEFINE x == conn[me.c]
           n == net[me.c]
           s == Stream(x, n)
           eof == ~x.deprecateEOF
<1>1. me.pc \in ReadPCs \ HandshakeReads
  BY DEF ReadPCs, HandshakeReads
<1>2. /\ TypeOK /\ me \in Caller /\ me.c \in Conn /\ Manner(me) /\ me.part = NoPkt /\ ~me.bad
      /\ x \in Connection /\ n \in Socket /\ s \in Seq(ServerFrame)
      /\ Receiving(me, x, n) => ~IsErr(me.got) /\ Rest(me, s, eof)
  BY <1>1, AnswerFacts
<1>3. \/ /\ me.mode = "params"
         /\ me' = [me EXCEPT !.pc = "columns", !.left = Columns, !.mode = "prepare", !.got = NoPkt]
      \/ /\ me.mode = "prepare"
         /\ me' = [me EXCEPT !.pc = "finish", !.then = "stmt", !.cmd = "stmt", !.got = NoPkt]
      \/ /\ me.mode \in {"query", "loop"}
         /\ me' = [me EXCEPT !.pc = "rows", !.got = NoPkt, !.rsDone = FALSE, !.mc = TRUE]
      \/ /\ me.mode \notin {"params", "prepare", "query", "loop"}
         /\ me' = [me EXCEPT !.pc = "skip", !.got = NoPkt]
  BY DEF AfterColumns, Prepare, Goto
<1>4. (eof = TRUE \/ eof = FALSE) /\ (me.pc = "eof" \/ (me.pc = "columns" /\ me.left = 1 /\ eof = FALSE))
  BY <1>2 DEF Connection
<1>5. ~Failing(me, x)
  BY DEF Failing, HandshakeReads
<1>12. me \in Caller /\ s \in Seq(ServerFrame) /\ me.part = NoPkt
  BY <1>2
<1> HIDE DEF x, n, s, eof
<1>6. me.mode \in {"params", "prepare"} => (Receiving(me, x, n) => PrepareRest(me, s, eof))
  BY <1>2, RestKinds DEF Preparing
<1>7. me.mode \notin {"params", "prepare"} => (Receiving(me, x, n) => ResultRest(me, s, eof))
  BY <1>2, RestKinds DEF Preparing, HandshakeReads
<1>8. CASE /\ me.mode = "params"
           /\ me' = [me EXCEPT !.pc = "columns", !.left = Columns, !.mode = "prepare", !.got = NoPkt]
  <2>1. /\ me'.pc = "columns" /\ me'.got = NoPkt /\ me'.part = me.part /\ me'.bad = me.bad /\ me'.n = me.n
        /\ me'.mode = "prepare" /\ me'.kind = me.kind /\ me'.left = Columns
    BY <1>2, <1>8 DEF Caller
  <2>2. Columns # 0
    OBVIOUS
  <2>3. Manner(me') /\ Resumes(me, me') /\ me'.pc \in ReadPCs
    BY <1>2, <2>1, <2>2 DEF Manner, Resumes, ReadPCs
  <2>4. ASSUME PrepareRest(me, s, eof)
        PROVE  PrepareRest(me', s, eof)
    <3>1. me.got # NoPkt /\ me'.got = NoPkt /\ me'.part = NoPkt /\ me.mode = "params"
      BY <1>8, <1>12, <2>1
    <3> QED
      BY <1>4, <1>12, <2>1, <2>4, <3>1, AfterParams
  <2>5. Receiving(me, x, n) => Rest(me', s, eof)
    BY <1>6, <1>8, <2>1, <2>4, RestKinds DEF Preparing
  <2>6. Following(me, x, n) => Following(me', x, n)
    BY <1>1, <1>2, <1>5, <2>1, <2>3, <2>5, StillItself, ReadFollowing DEF s, eof
  <2> QED
    BY <2>3, <2>6 DEF x, n
<1>9. CASE /\ me.mode = "prepare"
           /\ me' = [me EXCEPT !.pc = "finish", !.then = "stmt", !.cmd = "stmt", !.got = NoPkt]
  <2>1. /\ me'.pc = "finish" /\ me'.got = NoPkt /\ me'.part = me.part /\ me'.bad = me.bad /\ me'.n = me.n
        /\ me'.mode = me.mode /\ me'.kind = me.kind /\ me'.then = "stmt"
    BY <1>2, <1>9 DEF Caller
  <2>2. Manner(me') /\ Resumes(me, me') /\ me'.pc \notin ReadPCs /\ ~Paused(me')
    BY <1>2, <2>1 DEF Manner, Resumes, ReadPCs, Paused
  <2>3. ASSUME PrepareRest(me, s, eof)
        PROVE  Len(s) = 0
    <3>1. me.got # NoPkt /\ me'.got = NoPkt /\ me'.part = NoPkt /\ me.mode = "prepare"
      BY <1>9, <1>12, <2>1
    <3> QED
      BY <1>4, <1>12, <2>3, <3>1, PrepareOn
  <2>5. Receiving(me, x, n) => Len(s) = 0
    BY <1>6, <1>9, <2>3
  <2>4. Following(me, x, n) => Following(me', x, n)
    BY <1>1, <1>2, <1>5, <2>1, <2>2, <2>5, StillItself, ReadFollowing DEF s, ReadPCs
  <2> QED
    BY <2>2, <2>4 DEF x, n
<1>10. CASE /\ me.mode \in {"query", "loop"}
            /\ me' = [me EXCEPT !.pc = "rows", !.got = NoPkt, !.rsDone = FALSE, !.mc = TRUE]
  <2>1. /\ me'.pc = "rows" /\ me'.got = NoPkt /\ me'.part = me.part /\ me'.bad = me.bad /\ me'.n = me.n
        /\ me'.mode = me.mode /\ me'.kind = me.kind /\ me'.rsDone = FALSE /\ me'.mc = TRUE
    BY <1>2, <1>10 DEF Caller
  <2>2. Manner(me') /\ Resumes(me, me') /\ Paused(me')
    BY <1>2, <2>1 DEF Manner, Resumes, ReadPCs, Paused
  <2>3. ASSUME ResultRest(me, s, eof)
        PROVE  ResultRest(me', s, eof)
    <3>1. /\ me.got # NoPkt /\ me'.got = NoPkt /\ me'.part = NoPkt /\ me'.pc = "rows" /\ ~me'.rsDone
          /\ me.pc \in {"columns", "eof"}
      BY <1>4, <1>12, <2>1
    <3> QED
      BY <1>4, <1>12, <2>3, <3>1, ToRows
  <2>4. Receiving(me, x, n) => Rest(me', s, eof)
    BY <1>7, <1>10, <2>1, <2>3, RestKinds DEF Preparing, HandshakeReads
  <2>5. Following(me, x, n) => Following(me', x, n)
    BY <1>1, <1>2, <1>5, <2>1, <2>2, <2>4, StillItself, ReadFollowing DEF s, eof
  <2> QED
    BY <2>2, <2>5 DEF x, n
<1>11. CASE /\ me.mode \notin {"params", "prepare", "query", "loop"}
            /\ me' = [me EXCEPT !.pc = "skip", !.got = NoPkt]
  <2>1. /\ me'.pc = "skip" /\ me'.got = NoPkt /\ me'.part = me.part /\ me'.bad = me.bad /\ me'.n = me.n
        /\ me'.mode = me.mode /\ me'.kind = me.kind
    BY <1>2, <1>11 DEF Caller
  <2>2. Manner(me') /\ Resumes(me, me') /\ me'.pc \in ReadPCs
    BY <1>2, <1>11, <2>1 DEF Manner, Resumes, ReadPCs
  <2>3. ASSUME ResultRest(me, s, eof)
        PROVE  ResultRest(me', s, eof)
    <3>1. /\ me.got # NoPkt /\ me'.got = NoPkt /\ me'.part = NoPkt /\ me'.pc = "skip"
          /\ me.pc \in {"columns", "eof"}
      BY <1>4, <1>12, <2>1
    <3> QED
      BY <1>4, <1>12, <2>3, <3>1, ToRows
  <2>4. Receiving(me, x, n) => Rest(me', s, eof)
    BY <1>7, <1>11, <2>1, <2>3, RestKinds DEF Preparing, HandshakeReads
  <2>5. Following(me, x, n) => Following(me', x, n)
    BY <1>1, <1>2, <1>5, <2>1, <2>2, <2>4, StillItself, ReadFollowing DEF s, eof
  <2> QED
    BY <2>2, <2>5 DEF x, n
<1> QED
  BY <1>3, <1>8, <1>9, <1>10, <1>11
LEMMA AfterColumnsAccounted ==
    ASSUME ReplyInv, me.pc \in {"columns", "eof"}, me.got # NoPkt, ~IsErr(me.got), AfterColumns,
           me.pc = "columns" => me.left = 1 /\ conn[me.c].deprecateEOF,
           ReadColumn \/ SkipEof
    PROVE  Manner(me') /\ \A d \in Conn : Accounted(d)'
<1>1. conn' = conn
  BY DEF ReadColumn, SkipEof
<1>2. SessionAction
  BY DEF SessionAction
<1>3. Manner(me') /\ (Following(me, conn[me.c], net[me.c]) => Following(me', conn[me.c], net[me.c]))
  BY AfterColumnsFollowing
<1> QED
  BY <1>1, <1>2, <1>3, SessionAccounted

\* A column that cannot be read ends the operation.
LEMMA ColumnFails ==
    ASSUME ReplyInv, me.pc \in {"columns", "eof"}, me.got # NoPkt, IsErr(me.got), NEW e, End(e),
           ReadColumn \/ SkipEof
    PROVE  Manner(me') /\ \A d \in Conn : Accounted(d)'
<1>1. conn' = conn
  BY DEF ReadColumn, SkipEof
<1>2. SessionAction
  BY DEF SessionAction
<1>3. me.pc \in ReadPCs \ HandshakeReads
  BY DEF ReadPCs, HandshakeReads
<1>4. TypeOK /\ me \in Caller /\ me.c \in Conn /\ Manner(me)
  BY <1>3, AnswerFacts
<1>5. Following(me, conn[me.c], net[me.c]) => Following(me', conn'[me.c], net[me.c])
  BY <1>1, <1>3, <1>4, StillItself, FailedFollowing
<1> QED
  BY <1>1, <1>2, <1>4, <1>5, EndManner, SessionAccounted

LEMMA ReadColumnAccounted ==
    ASSUME ReplyInv, ReadColumn
    PROVE  Manner(me') /\ \A d \in Conn : Accounted(d)'
<1> DEFINE x == conn[me.c]
           n == net[me.c]
           s == Stream(x, n)
           eof == ~x.deprecateEOF
<1>1. me.pc = "columns" /\ me.pc \in ReadPCs \ HandshakeReads /\ me.got # NoPkt /\ conn' = conn
  BY DEF ReadColumn, Ready, ReadPCs, HandshakeReads
<1>2. /\ TypeOK /\ me \in Caller /\ me.c \in Conn /\ Manner(me) /\ me.part = NoPkt /\ ~me.bad
      /\ x \in Connection /\ n \in Socket /\ s \in Seq(ServerFrame)
      /\ Receiving(me, x, n) => ~IsErr(me.got) /\ Rest(me, s, eof)
  BY <1>1, AnswerFacts
<1>3. SessionAction
  BY DEF SessionAction
<1>4. (eof = TRUE \/ eof = FALSE) /\ (eof = TRUE <=> ~conn[me.c].deprecateEOF)
  BY <1>2 DEF Connection
<1>5. me.left \in Nat /\ me.left # 0
  BY <1>1, <1>2 DEF Manner, Caller
<1>6. s \in Seq(ServerFrame) /\ me \in Caller /\ me.part = NoPkt
  BY <1>2
<1> HIDE DEF x, n, s, eof
<1>7. me.mode \in {"params", "prepare"} => (Receiving(me, x, n) => PrepareRest(me, s, eof))
  BY <1>1, <1>2, RestKinds DEF Preparing
<1>8. me.mode \notin {"params", "prepare"} => (Receiving(me, x, n) => ResultRest(me, s, eof))
  BY <1>1, <1>2, RestKinds DEF Preparing, HandshakeReads
<1>9. CASE IsErr(me.got) /\ End(me.got.kind)
  BY <1>1, <1>9, ColumnFails
<1>10. CASE ~IsErr(me.got) /\ me.left > 1 /\ me' = [me EXCEPT !.left = @ - 1, !.got = NoPkt]
  <2>1. /\ me'.pc = "columns" /\ me'.got = NoPkt /\ me'.part = me.part /\ me'.bad = me.bad /\ me'.n = me.n
        /\ me'.mode = me.mode /\ me'.kind = me.kind /\ me'.left = me.left - 1
    BY <1>1, <1>2, <1>10 DEF Caller
  <2>2. me'.left # 0
    BY <1>5, <1>10, <2>1
  <2>3. Manner(me') /\ Resumes(me, me') /\ me'.pc \in ReadPCs
    BY <1>2, <2>1, <2>2 DEF Manner, Resumes, ReadPCs
  <2>4. ASSUME PrepareRest(me, s, eof), me.mode \in {"params", "prepare"}
        PROVE  PrepareRest(me', s, eof)
    BY <1>1, <1>4, <1>5, <1>6, <2>1, <2>4, ToColumn
  <2>5. ASSUME ResultRest(me, s, eof)
        PROVE  ResultRest(me', s, eof)
    BY <1>1, <1>6, <2>1, <2>5, LessColumns
  <2>6. Receiving(me, x, n) => Rest(me', s, eof)
    <3>1. CASE me.mode \in {"params", "prepare"}
      BY <1>7, <2>1, <2>4, <3>1, RestKinds DEF Preparing
    <3>2. CASE me.mode \notin {"params", "prepare"}
      BY <1>8, <2>1, <2>5, <3>2, RestKinds DEF Preparing, HandshakeReads
    <3> QED
      BY <3>1, <3>2
  <2>7. ~Failing(me, x)
    BY <1>1, <1>10 DEF Failing, HandshakeReads
  <2>8. Following(me, x, n) => Following(me', x, n)
    BY <1>1, <2>1, <2>3, <2>6, <2>7, StillItself, ReadFollowing DEF s, eof
  <2> QED
    BY <1>1, <1>3, <2>3, <2>8, SessionAccounted DEF x, n
<1>11. CASE ~IsErr(me.got) /\ me.left = 1 /\ ~conn[me.c].deprecateEOF /\ Goto("eof")
  <2>1. /\ me'.pc = "eof" /\ me'.got = NoPkt /\ me'.part = me.part /\ me'.bad = me.bad /\ me'.n = me.n
        /\ me'.mode = me.mode /\ me'.kind = me.kind
    BY <1>2, <1>11 DEF Caller, Goto
  <2>2. eof = TRUE
    BY <1>4, <1>11
  <2>3. Manner(me') /\ Resumes(me, me') /\ me'.pc \in ReadPCs
    BY <1>2, <2>1 DEF Manner, Resumes, ReadPCs
  <2>4. ASSUME PrepareRest(me, s, eof), me.mode \in {"params", "prepare"}
        PROVE  PrepareRest(me', s, eof)
    BY <1>1, <1>4, <1>6, <1>11, <2>1, <2>2, <2>4, ToEof
  <2>5. ASSUME ResultRest(me, s, eof)
        PROVE  ResultRest(me', s, eof)
    BY <1>1, <1>6, <1>11, <2>1, <2>2, <2>5, ToLastEof
  <2>6. Receiving(me, x, n) => Rest(me', s, eof)
    <3>1. CASE me.mode \in {"params", "prepare"}
      BY <1>7, <2>1, <2>4, <3>1, RestKinds DEF Preparing
    <3>2. CASE me.mode \notin {"params", "prepare"}
      BY <1>8, <2>1, <2>5, <3>2, RestKinds DEF Preparing, HandshakeReads
    <3> QED
      BY <3>1, <3>2
  <2>7. ~Failing(me, x)
    BY <1>1, <1>11 DEF Failing, HandshakeReads
  <2>8. Following(me, x, n) => Following(me', x, n)
    BY <1>1, <2>1, <2>3, <2>6, <2>7, StillItself, ReadFollowing DEF s, eof
  <2> QED
    BY <1>1, <1>3, <2>3, <2>8, SessionAccounted DEF x, n
<1>12. CASE ~IsErr(me.got) /\ me.left = 1 /\ conn[me.c].deprecateEOF /\ AfterColumns
  BY <1>1, <1>12, AfterColumnsAccounted
<1>13. \/ IsErr(me.got) /\ End(me.got.kind)
       \/ ~IsErr(me.got) /\ me.left > 1 /\ me' = [me EXCEPT !.left = @ - 1, !.got = NoPkt]
       \/ ~IsErr(me.got) /\ me.left = 1 /\ ~conn[me.c].deprecateEOF /\ Goto("eof")
       \/ ~IsErr(me.got) /\ me.left = 1 /\ conn[me.c].deprecateEOF /\ AfterColumns
  BY DEF ReadColumn
<1> QED
  BY <1>9, <1>10, <1>11, <1>12, <1>13

LEMMA SkipEofAccounted ==
    ASSUME ReplyInv, SkipEof
    PROVE  Manner(me') /\ \A d \in Conn : Accounted(d)'
<1>1. me.pc = "eof" /\ me.got # NoPkt /\ ((IsErr(me.got) /\ End(me.got.kind)) \/ (~IsErr(me.got) /\ AfterColumns))
  BY DEF SkipEof, Ready
<1> QED
  BY <1>1, ColumnFails, AfterColumnsAccounted

LEMMA SkipRowAccounted ==
    ASSUME ReplyInv, SkipRow
    PROVE  Manner(me') /\ \A d \in Conn : Accounted(d)'
<1> DEFINE x == conn[me.c]
           y == conn'[me.c]
           n == net[me.c]
           s == Stream(x, n)
           eof == ~x.deprecateEOF
<1>1. me.pc = "skip" /\ me.pc \in ReadPCs \ HandshakeReads /\ me.got # NoPkt
  BY DEF SkipRow, Ready, ReadPCs, HandshakeReads
<1>2. /\ TypeOK /\ me \in Caller /\ me.c \in Conn /\ Manner(me) /\ me.part = NoPkt /\ ~me.bad
      /\ x \in Connection /\ n \in Socket /\ s \in Seq(ServerFrame)
      /\ Receiving(me, x, n) => ~IsErr(me.got) /\ Rest(me, s, eof)
  BY <1>1, AnswerFacts
<1>3. SessionAction
  BY DEF SessionAction
<1>4. me.mode \notin {"query", "loop"}
  BY <1>1, <1>2 DEF Manner
<1>5. \/ Failed /\ End(Error) /\ UNCHANGED conn
      \/ me.got.kind = "ROW" /\ Goto("skip") /\ UNCHANGED conn
      \/ me.got.kind \in {"END", "END+"} /\ SetMore(More) /\ DiscardResults(More)
  BY DEF SkipRow
<1> HIDE DEF x, y, n, s, eof
<1>6. CASE Failed /\ End(Error) /\ UNCHANGED conn
  <2>1. Following(me, x, n) => Following(me', y, n)
    BY <1>1, <1>2, <1>6, StillItself, FailedFollowing DEF Failed, x, y, n
  <2> QED
    BY <1>2, <1>3, <1>6, <2>1, EndManner, SessionAccounted DEF x, y, n
<1>7. CASE me.got.kind = "ROW" /\ Goto("skip") /\ UNCHANGED conn
  <2>1. /\ me'.pc = "skip" /\ me'.got = NoPkt /\ me'.part = me.part /\ me'.bad = me.bad /\ me'.n = me.n
        /\ me'.mode = me.mode /\ me'.kind = me.kind
    BY <1>2, <1>7 DEF Caller, Goto
  <2>2. Manner(me') /\ Resumes(me, me') /\ me'.pc \in ReadPCs
    BY <1>2, <1>4, <2>1 DEF Manner, Resumes, ReadPCs
  <2>3. Receiving(me, x, n) => WellFormed(s, eof) /\ RowNext(s)
    BY <1>1, <1>2, <1>7, MoreRest
  <2>4. WellFormed(s, eof) /\ RowNext(s) => ResultRest(me', s, eof)
    BY <1>2, <2>1 DEF ResultRest, Unread, ReadPCs
  <2>5. Receiving(me, x, n) => Rest(me', s, eof)
    BY <2>1, <2>3, <2>4, RestKinds DEF Preparing, HandshakeReads
  <2>6. ~Failing(me, x)
    BY <1>7 DEF Failing, IsErr, Errors
  <2>7. Following(me, x, n) => Following(me', x, n)
    BY <1>1, <2>1, <2>2, <2>5, <2>6, StillItself, ReadFollowing DEF s, eof
  <2> QED
    BY <1>3, <1>7, <2>2, <2>7, SessionAccounted DEF x, n
<1>8. CASE me.got.kind \in {"END", "END+"} /\ SetMore(More) /\ DiscardResults(More)
  <2>1. More \in BOOLEAN
    BY DEF More
  <2>2. y.long = x.long
    BY <1>2, <1>8, <2>1, MoreEffect DEF x, y
  <2>3. Manner(me')
    BY <1>1, <1>2, <1>8, <2>1, DiscardFields
  <2>4. Following(me, x, n) => Following(me', y, n)
    BY <1>1, <1>2, <1>4, <1>8, DiscardFollowing DEF x, y, n
  <2> QED
    BY <1>3, <2>2, <2>3, <2>4, SessionAccounted DEF x, y, n
<1> QED
  BY <1>5, <1>6, <1>7, <1>8

-----------------------------------------------------------------------------
(* Rows                                                                     *)

LEMMA ClosedError ==
    ASSUME NEW c
    PROVE  conn[c].closed <=> ErrorOf(c) # "none"
BY DEF ErrorOf, CanceledOr

\* The caller between two packets of a result, and its connection.
LEMMA BetweenRows ==
    ASSUME ReplyInv, me.pc \in {"rows", "drain"}
    PROVE  /\ TypeOK /\ me \in Caller /\ me.c \in Conn /\ Manner(me)
           /\ me.got = NoPkt /\ me.part = NoPkt /\ ~me.bad
           /\ conn[me.c] \in Connection /\ net[me.c] \in Socket
           /\ Stream(conn[me.c], net[me.c]) \in Seq(ServerFrame)
<1>1. TypeOK /\ me \in Caller /\ Manner(me) /\ me.c \in Conn
  BY ReplyFacts, SessionFacts DEF SessionPCs, BetweenPCs
<1>2. conn[me.c] \in Connection /\ net[me.c] \in Socket
  BY <1>1 DEF TypeOK
<1>3. me.got = NoPkt /\ me.part = NoPkt /\ ~me.bad
  BY <1>1 DEF Manner, ReadPCs
<1> QED
  BY <1>1, <1>2, <1>3, StreamType

\* The rows are closed, where nothing is read and nothing in hand is lost.
LEMMA CloseRowsAccounted ==
    ASSUME ReplyInv, SessionAction, NEW e, CloseRows(e), UNCHANGED conn,
           me.pc = "rows" \/ (me.pc = "next" /\ me.got # NoPkt /\ IsErr(me.got))
    PROVE  Manner(me') /\ \A d \in Conn : Accounted(d)'
<1> DEFINE x == conn[me.c]
           n == net[me.c]
<1>1. me \in Caller /\ Manner(me)
  BY ReplyFacts
<1>2. /\ me'.pc = "finish" /\ me'.then = "drain" /\ Resumes(me, me')
      /\ me'.mode = me.mode /\ me'.kind = me.kind /\ me'.mc = me.mc /\ me'.rsDone = me.rsDone
  BY <1>1, CloseRowsFields
<1>3. Manner(me')
  BY <1>1, <1>2, PlainManner DEF Resumes
<1> HIDE DEF x, n
<1>4. ASSUME Following(me, x, n) PROVE Following(me', x, n)
  <2>1. CASE me.pc = "next" /\ me.got # NoPkt /\ IsErr(me.got)
    <3>1. x.closed
      BY <1>4, <2>1, GotHearing DEF ReadPCs, Receiving, Failing
    <3> QED
      BY <1>2, <3>1, RestingFollowing DEF ReadPCs
  <2>2. CASE me.pc = "rows"
    <3>1. me.got = NoPkt /\ me.part = NoPkt /\ ~me.bad
      BY <1>1, <2>2 DEF Manner, ReadPCs
    <3>2. Paused(me) <=> Paused(me')
      BY <1>2, <2>2 DEF Paused
    <3>3. CASE x.closed
      BY <1>2, <3>3, RestingFollowing DEF ReadPCs
    <3>4. CASE ~x.closed /\ Paused(me)
      <4>1. Receiving(me, x, n) /\ (me.rsDone => x.more)
        BY <1>4, <3>4 DEF Following
      <4>2. me'.bad = me.bad
        BY <1>1, <3>1 DEF CloseRows, Caller
      <4>3. Receiving(me', x, n)
        BY <1>2, <2>2, <3>1, <4>1, <4>2, PausedMoves DEF Resumes
      <4> QED
        BY <1>2, <3>2, <3>4, <4>1, <4>3, PausedFollowing
    <3>5. CASE ~x.closed /\ ~Paused(me)
      <4>1. Resting(x, n)
        BY <1>4, <2>2, <3>5 DEF Following, ReadPCs
      <4> QED
        BY <1>2, <3>2, <3>5, <4>1, RestingFollowing DEF ReadPCs
    <3> QED
      BY <3>3, <3>4, <3>5
  <2> QED
    BY <2>1, <2>2
<1> QED
  BY <1>3, <1>4, SessionAccounted DEF x, n

LEMMA NextRowAccounted ==
    ASSUME ReplyInv, NextRow
    PROVE  Manner(me') /\ \A d \in Conn : Accounted(d)'
<1> DEFINE x == conn[me.c]
           n == net[me.c]
           s == Stream(x, n)
           eof == ~x.deprecateEOF
<1>1. me.pc = "rows" /\ conn' = conn /\ SessionAction
  BY DEF NextRow, SessionAction
<1>2. /\ TypeOK /\ me \in Caller /\ me.c \in Conn /\ Manner(me)
      /\ me.got = NoPkt /\ me.part = NoPkt /\ ~me.bad
      /\ x \in Connection /\ n \in Socket /\ s \in Seq(ServerFrame)
  BY <1>1, BetweenRows
<1>3. \/ \E e : CloseRows(e)
      \/ me.mc /\ ~conn[me.c].closed /\ ~me.rsDone /\ Goto("next")
  <2>1. conn[me.c].closed <=> ErrorOf(me.c) # "none"
    BY ClosedError
  <2> QED
    BY <2>1 DEF NextRow
<1>4. CASE \E e : CloseRows(e)
  BY <1>1, <1>4, CloseRowsAccounted
<1>5. CASE me.mc /\ ~conn[me.c].closed /\ ~me.rsDone /\ Goto("next")
  <2>1. /\ me'.pc = "next" /\ me'.got = NoPkt /\ me'.part = me.part /\ me'.bad = me.bad /\ me'.n = me.n
        /\ me'.mode = me.mode /\ me'.kind = me.kind /\ me'.mc = me.mc /\ me'.rsDone = me.rsDone
    BY <1>2, <1>5 DEF Caller, Goto
  <2>2. ~x.closed
    BY <1>5
  <2> HIDE DEF x, n, s, eof
  <2>3. Manner(me') /\ Resumes(me, me') /\ me'.pc \in ReadPCs
    BY <1>2, <1>5, <2>1 DEF Manner, Resumes, ReadPCs
  <2>4. ASSUME Following(me, x, n) PROVE Following(me', x, n)
    <3>1. Receiving(me, x, n)
      BY <1>1, <1>5, <2>2, <2>4 DEF Following, Paused
    <3>2. Rest(me, s, eof)
      BY <3>1 DEF Receiving, s, eof
    <3>3. ResultRest(me, s, eof)
      BY <1>1, <3>2, RestKinds DEF Preparing, HandshakeReads
    <3>4. WellFormed(s, eof) /\ RowNext(s)
      BY <1>1, <1>2, <1>5, <3>3 DEF ResultRest, Unread, ReadPCs
    <3>5. ResultRest(me', s, eof)
      BY <1>2, <2>1, <3>4 DEF ResultRest, Unread, ReadPCs
    <3>6. Rest(me', s, eof)
      BY <2>1, <3>5, RestKinds DEF Preparing, HandshakeReads
    <3>7. Receiving(me', x, n)
      BY <2>1, <2>3, <3>1, <3>6, StillItself, ReadOn DEF s, eof
    <3> QED
      BY <2>3, <3>7, HearingFollowing DEF Hearing
  <2> QED
    BY <1>1, <2>3, <2>4, SessionAccounted DEF x, n
<1> QED
  BY <1>3, <1>4, <1>5

LEMMA StopScanningAccounted ==
    ASSUME ReplyInv, StopScanning \/ AwaitDone
    PROVE  Manner(me') /\ \A d \in Conn : Accounted(d)'
<1>1. me.pc = "rows" /\ UNCHANGED conn /\ (\E e : CloseRows(e)) /\ SessionAction
  BY DEF StopScanning, AwaitDone, SessionAction
<1> QED
  BY <1>1, CloseRowsAccounted

\* The facts of a row's packet.
LEMMA RowFacts ==
    ASSUME ReplyInv, ReadTextRow \/ ReadBinaryRow
    PROVE  /\ me.pc = "next" /\ me.pc \in ReadPCs \ HandshakeReads /\ me.got # NoPkt /\ SessionAction
           /\ me.mc = TRUE /\ me.rsDone = FALSE
           /\ (IsErr(me.got) /\ CloseRows(me.got.kind) /\ UNCHANGED conn) \/ RowsEnd \/ RowsFail \/ RowRead
<1>1. me.pc = "next" /\ me.got # NoPkt
  BY DEF ReadTextRow, ReadBinaryRow, Ready
<1>2. me.pc \in ReadPCs \ HandshakeReads
  BY <1>1 DEF ReadPCs, HandshakeReads
<1>3. me \in Caller /\ Manner(me)
  BY ReplyFacts
<1>4. me.mc = TRUE /\ me.rsDone = FALSE
  BY <1>1, <1>3 DEF Manner, Caller
<1>5. SessionAction
  BY DEF SessionAction
<1>6. (IsErr(me.got) /\ CloseRows(me.got.kind) /\ UNCHANGED conn) \/ RowsEnd \/ RowsFail \/ RowRead
  BY DEF ReadTextRow, ReadBinaryRow
<1> QED
  BY <1>1, <1>2, <1>4, <1>5, <1>6

LEMMA ReadRowAccounted ==
    ASSUME ReplyInv, ReadTextRow \/ ReadBinaryRow
    PROVE  Manner(me') /\ \A d \in Conn : Accounted(d)'
<1> DEFINE x == conn[me.c]
           y == conn'[me.c]
           n == net[me.c]
           s == Stream(x, n)
           eof == ~x.deprecateEOF
<1>1. /\ me.pc = "next" /\ me.pc \in ReadPCs \ HandshakeReads /\ me.got # NoPkt /\ SessionAction
      /\ me.mc = TRUE /\ me.rsDone = FALSE
      /\ (IsErr(me.got) /\ CloseRows(me.got.kind) /\ UNCHANGED conn) \/ RowsEnd \/ RowsFail \/ RowRead
  BY RowFacts
<1>2. /\ TypeOK /\ me \in Caller /\ me.c \in Conn /\ Manner(me) /\ me.part = NoPkt /\ ~me.bad
      /\ x \in Connection /\ n \in Socket /\ s \in Seq(ServerFrame)
      /\ Receiving(me, x, n) => ~IsErr(me.got) /\ Rest(me, s, eof)
  BY <1>1, AnswerFacts
<1>3. More \in BOOLEAN /\ (More <=> me.got.kind \in {"OK+", "END+"})
  BY DEF More
<1> HIDE DEF x, y, n, s, eof
<1>4. CASE IsErr(me.got) /\ CloseRows(me.got.kind) /\ UNCHANGED conn
  BY <1>1, <1>4, CloseRowsAccounted
<1>5. CASE RowsEnd /\ More
  <2>1. SetMore(TRUE) /\ me.got.kind \in {"END", "END+"}
    BY <1>3, <1>5 DEF RowsEnd
  <2>2. Still(x, y) /\ y.seq = x.seq /\ y.long = x.long /\ y.more = TRUE
    BY <1>2, <2>1, MoreEffect DEF x, y
  <2>3. me' = [me EXCEPT !.pc = "rows", !.then = @, !.got = NoPkt, !.rsDone = TRUE, !.mc = TRUE]
    BY <1>3, <1>5 DEF RowsEnd
  <2>4. /\ me'.pc = "rows" /\ me'.got = NoPkt /\ me'.part = me.part /\ me'.bad = me.bad /\ me'.n = me.n
        /\ me'.mode = me.mode /\ me'.kind = me.kind /\ me'.rsDone = TRUE /\ me'.mc = TRUE
    BY <1>2, <2>3 DEF Caller
  <2>5. Manner(me') /\ Resumes(me, me') /\ Paused(me')
    BY <1>2, <2>4 DEF Manner, Resumes, Paused, ReadPCs
  <2>6. Receiving(me, x, n) => WellFormed(s, eof) /\ HeadNext(s)
    BY <1>1, <1>2, <1>3, <1>5, MoreRest
  <2>7. WellFormed(s, eof) /\ HeadNext(s) => ResultRest(me', s, eof)
    BY <1>2, <2>4 DEF ResultRest, Unread, ReadPCs
  <2>8. Receiving(me, x, n) => Rest(me', s, eof)
    BY <2>4, <2>6, <2>7, RestKinds DEF Preparing, HandshakeReads
  <2>9. Following(me, x, n) => Following(me', y, n)
    BY <1>1, <2>2, <2>4, <2>5, <2>8, ReadFollowing DEF s, eof, ReadPCs
  <2> QED
    BY <1>1, <2>2, <2>5, <2>9, SessionAccounted DEF x, y, n
<1>6. CASE (RowsEnd /\ ~More) \/ RowsFail
  <2>1. \/ SetMore(FALSE) /\ me.got.kind = "END"
        \/ UNCHANGED conn /\ me.got.kind = "ERR"
    BY <1>3, <1>6 DEF RowsEnd, RowsFail
  <2>2. Still(x, y) /\ y.seq = x.seq /\ y.long = x.long
    BY <1>2, <2>1, MoreEffect, StillItself DEF x, y
  <2>3. \/ me' = [me EXCEPT !.pc = "finish", !.then = "drain", !.got = NoPkt, !.rsDone = TRUE, !.mc = FALSE]
        \/ me' = [me EXCEPT !.pc = "finish", !.then = "drain", !.got = NoPkt,
                            !.mc = FALSE, !.err = "MySQLError"]
    BY <1>3, <1>6 DEF RowsEnd, RowsFail
  <2>4. /\ me'.pc = "finish" /\ me'.got = NoPkt /\ me'.part = me.part /\ me'.bad = me.bad /\ me'.n = me.n
        /\ me'.mode = me.mode /\ me'.kind = me.kind /\ me'.mc = FALSE
    <3>1. CASE me' = [me EXCEPT !.pc = "finish", !.then = "drain", !.got = NoPkt, !.rsDone = TRUE, !.mc = FALSE]
      BY <1>2, <3>1 DEF Caller
    <3>2. CASE me' = [me EXCEPT !.pc = "finish", !.then = "drain", !.got = NoPkt,
                                !.mc = FALSE, !.err = "MySQLError"]
      BY <1>2, <3>2 DEF Caller
    <3> QED
      BY <2>3, <3>1, <3>2
  <2>5. Manner(me') /\ Resumes(me, me') /\ ~Paused(me')
    BY <1>2, <2>4, PlainManner DEF Resumes, Paused
  <2>6. Receiving(me, x, n) => Len(s) = 0
    BY <1>1, <1>2, <2>1, OverRest
  <2>7. Following(me, x, n) => Following(me', y, n)
    BY <1>1, <2>2, <2>4, <2>5, <2>6, ReadFollowing DEF s, ReadPCs
  <2> QED
    BY <1>1, <2>2, <2>5, <2>7, SessionAccounted DEF x, y, n
<1>7. CASE RowRead
  <2>1. me.got.kind = "ROW" /\ y = x /\ me' = [me EXCEPT !.pc = "rows", !.got = NoPkt, !.rows = @ + 1]
    BY <1>7 DEF RowRead, x, y
  <2>2. /\ me'.pc = "rows" /\ me'.got = NoPkt /\ me'.part = me.part /\ me'.bad = me.bad /\ me'.n = me.n
        /\ me'.mode = me.mode /\ me'.kind = me.kind /\ me'.mc = TRUE /\ me'.rsDone = FALSE
    BY <1>1, <1>2, <2>1 DEF Caller
  <2>3. Manner(me') /\ Resumes(me, me') /\ Paused(me')
    BY <1>2, <2>2 DEF Manner, Resumes, Paused, ReadPCs
  <2>4. Receiving(me, x, n) => WellFormed(s, eof) /\ RowNext(s)
    BY <1>1, <1>2, <2>1, MoreRest
  <2>5. WellFormed(s, eof) /\ RowNext(s) => ResultRest(me', s, eof)
    BY <1>2, <2>2 DEF ResultRest, Unread, ReadPCs
  <2>6. Receiving(me, x, n) => Rest(me', s, eof)
    BY <2>2, <2>4, <2>5, RestKinds DEF Preparing, HandshakeReads
  <2>7. Following(me, x, n) => Following(me', x, n)
    BY <1>1, <2>2, <2>3, <2>6, StillItself, ReadFollowing DEF s, eof, ReadPCs
  <2> QED
    BY <1>1, <2>1, <2>3, <2>7, SessionAccounted DEF x, y, n
<1> QED
  BY <1>1, <1>4, <1>5, <1>6, <1>7


LEMMA DrainAccounted ==
    ASSUME ReplyInv, Drain
    PROVE  Manner(me') /\ \A d \in Conn : Accounted(d)'
<1> DEFINE x == conn[me.c]
           n == net[me.c]
           s == Stream(x, n)
           eof == ~x.deprecateEOF
<1>1. me.pc = "drain" /\ conn' = conn /\ SessionAction
  BY DEF Drain, SessionAction
<1>2. /\ TypeOK /\ me \in Caller /\ me.c \in Conn /\ Manner(me)
      /\ me.got = NoPkt /\ me.part = NoPkt /\ ~me.bad
      /\ x \in Connection /\ n \in Socket /\ s \in Seq(ServerFrame)
  BY <1>1, BetweenRows
<1>3. conn[me.c].closed <=> ErrorOf(me.c) # "none"
  BY ClosedError
<1>4. \/ x.closed /\ \E e : End(e)
      \/ ~me.mc /\ \E e : End(e)
      \/ me.mc /\ ~x.closed /\ me.rsDone /\ ~x.more /\ \E e : End(e)
      \/ me.mc /\ ~x.closed /\ ~me.rsDone /\ me' = [me EXCEPT !.pc = "skip", !.mode = "closing"]
      \/ me.mc /\ ~x.closed /\ me.rsDone /\ me' = [me EXCEPT !.pc = "header", !.mode = "closing"]
  BY <1>3 DEF Drain
<1> HIDE DEF x, n, s, eof
<1>5. CASE (x.closed \/ ~me.mc) /\ \E e : End(e)
  <2>1. /\ me'.pc = "finish" /\ ~Paused(me') /\ Manner(me')
    BY <1>2, <1>5, EndFields, EndManner
  <2>2. ASSUME Following(me, x, n) PROVE Following(me', x, n)
    <3>1. x.closed \/ Resting(x, n)
      BY <1>1, <1>5, <2>2 DEF Following, ReadPCs, Paused
    <3> QED
      BY <2>1, <3>1, RestingFollowing DEF ReadPCs
  <2> QED
    BY <1>1, <2>1, <2>2, SessionAccounted DEF x, n
<1>6. ASSUME me.mc, ~x.closed, Following(me, x, n)
      PROVE  /\ Receiving(me, x, n) /\ (me.rsDone => x.more) /\ WellFormed(s, eof)
             /\ IF me.rsDone THEN HeadNext(s) ELSE RowNext(s)
  <2>1. Receiving(me, x, n) /\ (me.rsDone => x.more)
    BY <1>1, <1>6 DEF Following, Paused
  <2>2. Rest(me, s, eof)
    BY <2>1 DEF Receiving, s, eof
  <2>3. ResultRest(me, s, eof)
    BY <1>1, <2>2, RestKinds DEF Preparing, HandshakeReads
  <2> QED
    BY <1>1, <1>2, <2>1, <2>3 DEF ResultRest, Unread, ReadPCs
<1>7. CASE me.mc /\ ~x.closed /\ me.rsDone /\ ~x.more /\ \E e : End(e)
  <2>1. Manner(me')
    BY <1>2, <1>7, EndManner
  <2>2. ~Following(me, x, n)
    BY <1>6, <1>7
  <2> QED
    BY <1>1, <2>1, <2>2, SessionAccounted DEF x, n
<1>8. CASE /\ me.mc /\ ~x.closed
           /\ \/ ~me.rsDone /\ me' = [me EXCEPT !.pc = "skip", !.mode = "closing"]
              \/ me.rsDone /\ me' = [me EXCEPT !.pc = "header", !.mode = "closing"]
  <2>1. /\ me'.pc = (IF me.rsDone THEN "header" ELSE "skip") /\ me'.mode = "closing"
        /\ me'.got = me.got /\ me'.part = me.part /\ me'.bad = me.bad /\ me'.n = me.n /\ me'.kind = me.kind
    BY <1>2, <1>8, ZenonT(30) DEF Caller
  <2>2. Manner(me') /\ Resumes(me, me') /\ me'.pc \in ReadPCs
    BY <1>2, <2>1 DEF Manner, Resumes, ReadPCs
  <2>3. ASSUME Following(me, x, n) PROVE Following(me', x, n)
    <3>1. /\ Receiving(me, x, n) /\ WellFormed(s, eof)
          /\ IF me.rsDone THEN HeadNext(s) ELSE RowNext(s)
      BY <1>6, <1>8, <2>3
    <3>2. ResultRest(me', s, eof)
      BY <1>2, <2>1, <3>1 DEF ResultRest, Unread, ReadPCs
    <3>3. Rest(me', s, eof)
      BY <2>1, <3>2, RestKinds DEF Preparing, HandshakeReads
    <3>4. Receiving(me', x, n)
      BY <2>1, <2>2, <3>1, <3>3, StillItself, ReadOn DEF s, eof
    <3> QED
      BY <2>2, <3>4, HearingFollowing DEF Hearing
  <2> QED
    BY <1>1, <2>2, <2>3, SessionAccounted DEF x, n
<1> QED
  BY <1>4, <1>5, <1>7, <1>8
-----------------------------------------------------------------------------
(* Writing a command                                                        *)

\* Nothing is read, before or after.
LEMMA IdleFollowing ==
    ASSUME NEW m, NEW p, NEW x, NEW n, Following(m, x, n), m.pc \notin ReadPCs, ~Paused(m),
           p.pc \notin ReadPCs \cup {"write"}, ~Paused(p)
    PROVE  Following(p, x, n)
<1>1. x.closed \/ Resting(x, n)
  BY DEF Following
<1> QED
  BY <1>1, RestingFollowing

LEMMA IdleAccounted ==
    ASSUME ReplyInv, SessionAction, UNCHANGED conn, me.pc \notin ReadPCs, ~Paused(me),
           me'.pc \notin ReadPCs \cup {"write"}, ~Paused(me')
    PROVE  \A d \in Conn : Accounted(d)'
<1>1. Following(me, conn[me.c], net[me.c]) => Following(me', conn'[me.c], net[me.c])
  BY IdleFollowing
<1> QED
  BY <1>1, SessionAccounted

\* The first packet of a command has number 0; and result sets may be unread
\* only when it has one frame.
LEMMA WriteFollowing ==
    ASSUME NEW m, NEW p, NEW x, NEW y, NEW n, Following(m, x, n), m.pc \notin ReadPCs, ~Paused(m),
           Still(x, y), y.more = x.more, y.seq = 0, p.pc = "write", p.left \in 1 .. MaxFrames,
           p.left = 1 \/ ~x.more
    PROVE  Following(p, y, n)
<1>1. x.closed \/ Resting(x, n)
  BY DEF Following
<1>2. y.closed \/ Resting(y, n)
  BY <1>1, StillResting DEF Still
<1>3. 0 + p.left <= MaxFrames
  OBVIOUS
<1>4. p.pc \notin ReadPCs /\ ~Paused(p)
  BY DEF ReadPCs, Paused
<1>5. Stream(y, n) = Stream(x, n)
  BY DEF Stream, Still
<1>6. 1 <= Len(Stream(x, n)) /\ ~y.closed => p.left = 1
  BY <1>1 DEF Resting, Still
<1> QED
  BY <1>2, <1>3, <1>4, <1>5, <1>6 DEF Following

\* The fields a command sets, and the connection.
LEMMA WriteFields ==
    ASSUME TypeOK, me.c \in Conn, NEW cmd, NEW k, Write(cmd, k)
    PROVE  /\ me'.pc = "write" /\ me'.cmd = cmd /\ me'.left = k /\ me'.mode = Mode(cmd)
           /\ me'.then = Reader(cmd) /\ me'.got = me.got /\ me'.part = me.part /\ me'.bad = me.bad
           /\ me'.n = me.n /\ me'.kind = me.kind
           /\ Still(conn[me.c], conn'[me.c]) /\ conn'[me.c].more = conn[me.c].more
           /\ conn'[me.c].seq = 0
           /\ ~conn'[me.c].long => ~conn[me.c].long /\ ~(k > 1 /\ conn[me.c].more)
<1> DEFINE m == Mode(cmd)
           t == Reader(cmd)
           y == conn[me.c]
           l == Long(k)
           x == [y EXCEPT !.seq = 0, !.long = l]
<1>1. me' = [me EXCEPT !.pc = "write", !.cmd = cmd, !.arg = "none", !.left = k, !.mode = m, !.then = t]
  BY DEF Write
<1>2. conn' = [conn EXCEPT ![me.c] = x]
  BY Zenon DEF Write
<1>3. y \in Connection /\ me \in Caller
  BY DEF TypeOK
<1>4. ~l => ~y.long /\ ~(k > 1 /\ y.more)
  BY DEF Long
<1> HIDE DEF m, t, y, l
<1>5. /\ me'.pc = "write" /\ me'.cmd = cmd /\ me'.left = k /\ me'.mode = m
      /\ me'.then = t /\ me'.got = me.got /\ me'.part = me.part /\ me'.bad = me.bad
      /\ me'.n = me.n /\ me'.kind = me.kind
  BY <1>1, <1>3 DEF Caller
<1>6. /\ x.st = y.st /\ x.buf = y.buf /\ x.seq = 0 /\ x.deprecateEOF = y.deprecateEOF
      /\ x.more = y.more /\ x.long = l /\ x.closed = y.closed
  BY <1>3 DEF Connection
<1> HIDE DEF x
<1>7. conn'[me.c] = x
  BY <1>2 DEF TypeOK
<1> QED
  BY <1>4, <1>5, <1>6, <1>7 DEF Still, m, t, y

LEMMA CommandReader ==
    \A cmd : cmd \in Command \cup {"execute"} => Awaits(Reader(cmd), cmd)
BY DEF Command, Awaits, Reader

LEMMA ModeKinds ==
    \A cmd : /\ Mode(cmd) = "query" => me.kind \in {"query", "stmtQuery"}
             /\ Mode(cmd) # "loop"
BY DEF Mode

LEMMA WriteAccounted ==
    ASSUME ReplyInv, SessionAction, me.pc \notin ReadPCs \cup {"failed"}, ~Paused(me), NEW cmd, NEW k \in 1 .. MaxFrames,
           Write(cmd, k), Awaits(Reader(cmd), cmd) \/ (cmd = "longData" /\ k = 1)
    PROVE  Manner(me') /\ \A d \in Conn : Accounted(d)'
<1> DEFINE x == conn[me.c]
           y == conn'[me.c]
           n == net[me.c]
<1>1. TypeOK /\ me.c \in Conn /\ Manner(me)
  BY ReplyFacts, SessionTouches
<1>2. /\ me'.pc = "write" /\ me'.cmd = cmd /\ me'.left = k /\ me'.mode = Mode(cmd)
      /\ me'.then = Reader(cmd) /\ me'.got = me.got /\ me'.part = me.part /\ me'.bad = me.bad
      /\ me'.n = me.n /\ me'.kind = me.kind
      /\ Still(x, y) /\ y.more = x.more /\ y.seq = 0
      /\ ~y.long => ~x.long /\ ~(k > 1 /\ x.more)
  BY <1>1, WriteFields
<1>3. me.got = NoPkt /\ me.part = NoPkt /\ ~me.bad
  BY <1>1 DEF Manner
<1>4. Mode(cmd) = "query" => me.kind \in {"query", "stmtQuery"}
  BY ModeKinds
<1>5. Mode(cmd) # "loop"
  BY ModeKinds
<1>6. Reader(cmd) \notin HandshakePCs
  BY DEF Reader, HandshakePCs
<1>7. Awaits(me'.then, me'.cmd) \/ <<me'.then, me'.cmd>> = <<"execute", "longData">>
  BY <1>2 DEF Reader
<1> HIDE DEF x, y, n
<1>8. Manner(me')
  BY <1>2, <1>3, <1>4, <1>5, <1>6, <1>7 DEF Manner, ReadPCs
<1>9. Following(me, x, n) /\ ~y.long => Following(me', y, n)
  BY <1>2, WriteFollowing
<1> QED
  BY <1>2, <1>8, <1>9, SessionAccounted DEF x, y, n

LEMMA SendAccounted ==
    ASSUME ReplyInv, Send \/ SendExecute
    PROVE  Manner(me') /\ \A d \in Conn : Accounted(d)'
<1>1. me.pc \notin ReadPCs \cup {"failed"} /\ ~Paused(me) /\ SessionAction
  BY DEF Send, SendExecute, ReadPCs, Paused, SessionAction
<1>2. me \in Caller /\ Manner(me)
  BY ReplyFacts
<1>3. CASE (\E e : End(e)) /\ UNCHANGED conn
  <2>1. me'.pc = "finish" /\ ~Paused(me') /\ Manner(me')
    BY <1>2, <1>3, EndFields, EndManner
  <2> QED
    BY <1>1, <1>3, <2>1, IdleAccounted DEF ReadPCs
<1>4. CASE \E cmd \in Command : \E k \in 1 .. MaxFrames : Write(cmd, k)
  BY <1>1, <1>4, CommandReader, WriteAccounted
<1>5. CASE \E k \in 1 .. MaxFrames : Write("execute", k)
  BY <1>1, <1>5, CommandReader, WriteAccounted
<1>6. CASE Write("longData", 1)
  <2>1. 1 \in 1 .. MaxFrames
    OBVIOUS
  <2> QED
    BY <1>1, <1>6, <2>1, WriteAccounted
<1>7. 1 .. 1 \subseteq 1 .. MaxFrames
  OBVIOUS
<1>8. Send => \/ (\E e : End(e)) /\ UNCHANGED conn
              \/ \E cmd \in Command : \E k \in 1 .. MaxFrames : Write(cmd, k)
  BY <1>7 DEF Send
<1>9. SendExecute => \/ (\E e : End(e)) /\ UNCHANGED conn
                     \/ \E k \in 1 .. MaxFrames : Write("execute", k)
                     \/ Write("longData", 1)
  BY DEF SendExecute, SendLongData
<1> QED
  BY <1>3, <1>4, <1>5, <1>6, <1>8, <1>9

LEMMA WriteFailedAccounted ==
    ASSUME ReplyInv, WriteFailed
    PROVE  Manner(me') /\ \A d \in Conn : Accounted(d)'
<1>1. me.pc = "failed" /\ UNCHANGED conn /\ SessionAction
  BY DEF WriteFailed, SessionAction
<1>2. me \in Caller /\ Manner(me)
  BY ReplyFacts
<1>3. me.pc \notin ReadPCs /\ ~Paused(me)
  BY <1>1 DEF ReadPCs, Paused
<1>4. \/ me' = [me EXCEPT !.pc = "release", !.got = NoPkt]
      \/ \E e : End(e)
  BY DEF WriteFailed
<1>5. CASE \E e : End(e)
  <2>1. me'.pc = "finish" /\ ~Paused(me') /\ Manner(me')
    BY <1>2, <1>5, EndFields, EndManner
  <2> QED
    BY <1>1, <1>3, <2>1, IdleAccounted DEF ReadPCs
<1>6. CASE me' = [me EXCEPT !.pc = "release", !.got = NoPkt]
  <2>1. /\ me'.pc = "release" /\ me'.got = NoPkt /\ me'.part = me.part /\ me'.bad = me.bad
        /\ me'.mode = me.mode /\ me'.kind = me.kind
    BY <1>2, <1>6 DEF Caller
  <2>2. me.part = NoPkt /\ ~me.bad
    BY <1>2, <1>3 DEF Manner
  <2>3. Manner(me') /\ ~Paused(me')
    BY <1>2, <2>1, <2>2, PlainManner DEF Paused
  <2> QED
    BY <1>1, <1>3, <2>1, <2>3, IdleAccounted DEF ReadPCs
<1> QED
  BY <1>4, <1>5, <1>6

LEMMA CloseStmtAccounted ==
    ASSUME ReplyInv, CloseStmt
    PROVE  Manner(me') /\ \A d \in Conn : Accounted(d)'
<1> DEFINE y == conn[me.c]
           x == [y EXCEPT !.seq = 0]
           n == net[me.c]
<1>1. me.pc = "closeStmt" /\ SessionAction
  BY DEF CloseStmt, SessionAction
<1>2. TypeOK /\ me \in Caller /\ Manner(me) /\ me.c \in Conn /\ y \in Connection
  BY <1>1, ReplyFacts, SessionTouches DEF TypeOK
<1>3. me.pc \notin ReadPCs \cup {"failed"} /\ ~Paused(me)
  BY <1>1 DEF ReadPCs, Paused
<1>4. me.got = NoPkt /\ me.part = NoPkt /\ ~me.bad
  BY <1>2, <1>3 DEF Manner
<1>5. \/ me' = [me EXCEPT !.pc = "release"] /\ UNCHANGED conn
      \/ /\ conn' = [conn EXCEPT ![me.c] = x]
         /\ me' = [me EXCEPT !.pc = "write", !.cmd = "stmtClose", !.left = 1, !.then = "release"]
  BY DEF CloseStmt
<1>6. CASE me' = [me EXCEPT !.pc = "release"] /\ UNCHANGED conn
  <2>1. /\ me'.pc = "release" /\ me'.got = me.got /\ me'.part = me.part /\ me'.bad = me.bad
        /\ me'.mode = me.mode /\ me'.kind = me.kind
    BY <1>2, <1>6 DEF Caller
  <2>2. Manner(me') /\ ~Paused(me')
    BY <1>2, <1>4, <2>1, PlainManner DEF Paused
  <2> QED
    BY <1>1, <1>3, <1>6, <2>1, <2>2, IdleAccounted DEF ReadPCs
<1>7. CASE /\ conn' = [conn EXCEPT ![me.c] = x]
           /\ me' = [me EXCEPT !.pc = "write", !.cmd = "stmtClose", !.left = 1, !.then = "release"]
  <2>1. /\ me'.pc = "write" /\ me'.got = me.got /\ me'.part = me.part /\ me'.bad = me.bad
        /\ me'.mode = me.mode /\ me'.kind = me.kind /\ me'.left = 1 /\ me'.cmd = "stmtClose"
        /\ me'.then = "release"
    BY <1>2, <1>7 DEF Caller
  <2>2. Manner(me')
    BY <1>2, <1>4, <2>1 DEF Manner, ReadPCs, HandshakePCs
  <2> HIDE DEF y, n
  <2>3. /\ x.st = y.st /\ x.buf = y.buf /\ x.seq = 0 /\ x.deprecateEOF = y.deprecateEOF
        /\ x.more = y.more /\ x.long = y.long /\ x.closed = y.closed
    BY <1>2 DEF Connection
  <2> HIDE DEF x
  <2>4. conn'[me.c] = x
    BY <1>2, <1>7 DEF TypeOK
  <2>5. 1 \in 1 .. MaxFrames
    OBVIOUS
  <2>6. Following(me, y, n) => Following(me', x, n)
    BY <1>3, <2>1, <2>3, <2>5, WriteFollowing DEF Still
  <2> QED
    BY <1>1, <2>2, <2>3, <2>4, <2>6, SessionAccounted DEF y, n
<1> QED
  BY <1>5, <1>6, <1>7

LEMMA EndTxAccounted ==
    ASSUME ReplyInv, EndTx
    PROVE  Manner(me') /\ \A d \in Conn : Accounted(d)'
<1>1. me.pc = "inTx" /\ UNCHANGED conn /\ SessionAction /\ me' = [me EXCEPT !.pc = "send", !.mode = "endTx"]
  BY DEF EndTx, SessionAction
<1>2. me \in Caller /\ Manner(me)
  BY ReplyFacts
<1>3. me.pc \notin ReadPCs /\ ~Paused(me)
  BY <1>1 DEF ReadPCs, Paused
<1>4. me.got = NoPkt /\ me.part = NoPkt /\ ~me.bad
  BY <1>1, <1>2, <1>3 DEF Manner
<1>5. /\ me'.pc = "send" /\ me'.got = me.got /\ me'.part = me.part /\ me'.bad = me.bad /\ me'.mode = "endTx"
  BY <1>1, <1>2 DEF Caller
<1>6. Manner(me') /\ ~Paused(me')
  BY <1>4, <1>5 DEF Manner, Paused
<1> QED
  BY <1>1, <1>3, <1>5, <1>6, IdleAccounted DEF ReadPCs
\* Every step of a session.
LEMMA SessionActionAccounted ==
    ASSUME ReplyInv, TypeOK', SessionAction
    PROVE  Manner(me') /\ \A d \in Conn : Accounted(d)'
<1>1. CASE Send \/ SendExecute \/ WriteFailed \/ CloseStmt \/ EndTx
  BY <1>1, SendAccounted, WriteFailedAccounted, CloseStmtAccounted, EndTxAccounted
<1>2. CASE ReadResultOK \/ ReadHeader \/ ReadPrepared \/ ReadColumn \/ SkipEof \/ SkipRow
  BY <1>2, ReadResultOKAccounted, ReadHeaderAccounted, ReadPreparedAccounted, ReadColumnAccounted,
     SkipEofAccounted, SkipRowAccounted
<1>3. CASE NextRow \/ ReadTextRow \/ ReadBinaryRow \/ AwaitDone \/ StopScanning \/ Drain
  BY <1>3, NextRowAccounted, ReadRowAccounted, StopScanningAccounted, DrainAccounted
<1> QED
  BY <1>1, <1>2, <1>3 DEF SessionAction

-----------------------------------------------------------------------------
(* Connecting                                                               *)

LEMMA EmptyResting ==
    ASSUME NEW y, NEW p, ~Asked(p), Len(Stream(y, p)) = 0
    PROVE  Resting(y, p)
<1>1. ~(1 <= 0)
  OBVIOUS
<1> QED
  BY <1>1 DEF Resting

\* A step of the handshake is about the caller's connection.
LEMMA ConnectAccounted ==
    ASSUME ReplyInv, me.c \in Conn, me'.c = me.c, Elsewhere(me.c),
           conn'[me.c].long = conn[me.c].long, conn[me.c].st = "dialled",
           Following(me, conn[me.c], net[me.c]) => Following(me', conn'[me.c], net'[me.c])
    PROVE  \A d \in Conn : Accounted(d)'
<1>1. ~conn[me.c].long => Following(me, conn[me.c], net[me.c])
  BY DEF ReplyInv, Accounted
<1> QED
  BY <1>1, MineAccounted

LEMMA ConnectFailsAccounted ==
    ASSUME ReplyInv, me.c \in Conn, NEW e, ConnectFails(e)
    PROVE  Manner(me') /\ \A d \in Conn : Accounted(d)'
<1>1. TypeOK /\ me \in Caller /\ Manner(me)
  BY ReplyFacts
<1>2. Elsewhere(me.c) /\ conn'[me.c].closed = TRUE
  BY <1>1, CloseLull DEF ConnectFails
<1>3. me' = [me EXCEPT !.pc = "finish", !.then = "connectFailed", !.err = e,
                        !.got = NoPkt, !.part = NoPkt, !.bad = FALSE]
  BY DEF ConnectFails
<1>4. /\ me'.pc = "finish" /\ me'.got = NoPkt /\ me'.part = NoPkt /\ me'.bad = FALSE
      /\ me'.mode = me.mode /\ me'.kind = me.kind /\ me'.c = me.c
  BY <1>1, <1>3 DEF Caller
<1>5. Manner(me')
  BY <1>1, <1>4, PlainManner
<1>6. Following(me', conn'[me.c], net'[me.c])
  BY <1>2, <1>4, RestingFollowing DEF ReadPCs
<1> QED
  BY <1>2, <1>4, <1>5, <1>6, MineAccounted

\* The one packet of an authentication has been read; nothing more comes.
LEMMA HandshakeOver ==
    ASSUME NEW m, NEW x, NEW n, Following(m, x, n), m.pc \in HandshakeReads, m.got # NoPkt,
           ~IsErr(m.got), m.got.kind # "ERR"
    PROVE  /\ Receiving(m, x, n) /\ ~Asked(n) /\ Rest(m, Stream(x, n), ~x.deprecateEOF)
           /\ ~(m.pc = "authResult" /\ m.got.kind = "FAST") => Len(Stream(x, n)) = 0
<1>1. m.pc \in ReadPCs
  BY DEF ReadPCs, HandshakeReads
<1>2. Receiving(m, x, n)
  BY <1>1, GotHearing DEF Failing
<1>3. HandshakeRest(m, Stream(x, n))
  BY <1>2, RestKinds DEF Receiving
<1> QED
  BY <1>2, <1>3 DEF Receiving, HandshakeRest

LEMMA ReplyFields ==
    ASSUME me \in Caller, NEW cmd, NEW arg, NEW then, Reply(cmd, arg, then)
    PROVE  /\ me'.pc = "write" /\ me'.cmd = cmd /\ me'.left = 1 /\ me'.then = then /\ me'.got = NoPkt
           /\ me'.part = me.part /\ me'.bad = me.bad /\ me'.mode = me.mode /\ me'.kind = me.kind
           /\ me'.c = me.c /\ me'.n = me.n
<1> DEFINE l == 1
<1>1. me' = [me EXCEPT !.pc = "write", !.cmd = cmd, !.arg = arg, !.left = l,
                       !.then = then, !.got = NoPkt]
  BY DEF Reply
<1> HIDE DEF l
<1>2. /\ me'.pc = "write" /\ me'.cmd = cmd /\ me'.left = l /\ me'.then = then /\ me'.got = NoPkt
      /\ me'.part = me.part /\ me'.bad = me.bad /\ me'.mode = me.mode /\ me'.kind = me.kind
      /\ me'.c = me.c /\ me'.n = me.n
  BY <1>1 DEF Caller
<1> QED
  BY <1>2 DEF l

LEMMA ReplyFollowing ==
    ASSUME NEW p, NEW y, NEW n, p.pc = "write", y.st = "dialled", y.closed \/ Resting(y, n)
    PROVE  Following(p, y, n)
BY DEF Following, ReadPCs, Paused

\* A packet of the handshake is written, when nothing is unread.
LEMMA ReplyAccounted ==
    ASSUME ReplyInv, me.c \in Conn, NEW cmd, NEW arg, NEW then, Reply(cmd, arg, then),
           Awaits(then, cmd) \/ <<then, cmd>> = <<"tls", "sslRequest">>,
           me.part = NoPkt, ~me.bad, Elsewhere(me.c), conn[me.c].st = "dialled",
           conn'[me.c].st = conn[me.c].st, conn'[me.c].long = conn[me.c].long,
           Following(me, conn[me.c], net[me.c]) => conn'[me.c].closed \/ Resting(conn'[me.c], net'[me.c])
    PROVE  Manner(me') /\ \A d \in Conn : Accounted(d)'
<1>1. me \in Caller /\ Manner(me)
  BY ReplyFacts
<1>2. /\ me'.pc = "write" /\ me'.cmd = cmd /\ me'.left = 1 /\ me'.then = then /\ me'.got = NoPkt
      /\ me'.part = me.part /\ me'.bad = me.bad /\ me'.mode = me.mode /\ me'.kind = me.kind
      /\ me'.c = me.c /\ me'.n = me.n
  BY <1>1, ReplyFields
<1>3. Manner(me')
  BY <1>1, <1>2 DEF Manner, ReadPCs
<1>4. Following(me, conn[me.c], net[me.c]) => Following(me', conn'[me.c], net'[me.c])
  BY <1>2, ReplyFollowing
<1> QED
  BY <1>2, <1>3, <1>4, ConnectAccounted

LEMMA ConnectedAccounted ==
    ASSUME ReplyInv, me.pc \in HandshakeReads, me.c \in Conn, conn[me.c].st = "dialled", me.got # NoPkt,
           me.got.kind = "OK", Connected
    PROVE  Manner(me') /\ \A d \in Conn : Accounted(d)'
<1> DEFINE y == conn[me.c]
           x == [y EXCEPT !.st = "ready"]
           n == net[me.c]
<1>1. TypeOK /\ me \in Caller /\ Manner(me) /\ y \in Connection
  BY ReplyFacts DEF TypeOK
<1>2. me' = [me EXCEPT !.pc = "finish", !.then = "watch", !.got = NoPkt, !.cmd = "none", !.arg = "none"]
  BY DEF Connected
<1>3. conn' = [conn EXCEPT ![me.c] = x] /\ net' = net
  BY DEF Connected
<1>4. /\ me'.pc = "finish" /\ me'.then = "watch" /\ me'.got = NoPkt /\ me'.part = me.part
      /\ me'.bad = me.bad /\ me'.mode = me.mode /\ me'.kind = me.kind /\ me'.c = me.c
  BY <1>1, <1>2 DEF Caller
<1>5. Manner(me') /\ ~Paused(me')
  BY <1>1, <1>4, HandFull, PlainManner DEF Paused
<1>6. ~IsErr(me.got)
  BY DEF IsErr, Errors
<1> HIDE DEF y, n
<1>7. x.buf = y.buf /\ x.long = y.long
  BY <1>1 DEF Connection
<1> HIDE DEF x
<1>8. conn'[me.c] = x /\ Elsewhere(me.c)
  BY <1>1, <1>3 DEF TypeOK, Elsewhere
<1>9. ASSUME Following(me, y, n) PROVE Following(me', x, n)
  <2>1. ~Asked(n) /\ Len(Stream(y, n)) = 0
    BY <1>6, <1>9, HandshakeOver
  <2>2. Stream(x, n) = Stream(y, n)
    BY <1>7 DEF Stream
  <2> QED
    BY <1>4, <1>5, <2>1, <2>2, EmptyResting, RestingFollowing DEF ReadPCs
<1> QED
  BY <1>3, <1>4, <1>5, <1>7, <1>8, <1>9, ConnectAccounted DEF y, n

LEMMA ReadHandshakePacketAccounted ==
    ASSUME ReplyInv, ReadHandshakePacket
    PROVE  Manner(me') /\ \A d \in Conn : Accounted(d)'
<1> DEFINE y == conn[me.c]
           n == net[me.c]
           d == n.eof
           x == [y EXCEPT !.deprecateEOF = d]
           m == [n EXCEPT !.ssl = FALSE, !.eof = FALSE]
<1>1. me.pc = "hello" /\ me.got # NoPkt
  BY DEF ReadHandshakePacket
<1>2. /\ TypeOK /\ me \in Caller /\ me.c \in Conn /\ y.st = "dialled" /\ Manner(me)
      /\ y \in Connection /\ n \in Socket
  BY <1>1, ReplyFacts, HandshakeFacts DEF HandshakePCs, St, TypeOK
<1>3. \/ \E e : ConnectFails(e)
      \/ /\ me.got.kind = "HELLO" /\ conn' = [conn EXCEPT ![me.c] = x] /\ net' = [net EXCEPT ![me.c] = m]
         /\ \E arg : Reply("sslRequest", arg, "tls") \/ Reply("auth", arg, "authResult")
  BY DEF ReadHandshakePacket, InitCapabilities
<1>4. CASE \E e : ConnectFails(e)
  BY <1>2, <1>4, ConnectFailsAccounted
<1>5. CASE /\ me.got.kind = "HELLO" /\ conn' = [conn EXCEPT ![me.c] = x] /\ net' = [net EXCEPT ![me.c] = m]
           /\ \E arg : Reply("sslRequest", arg, "tls") \/ Reply("auth", arg, "authResult")
  <2>1. ~IsErr(me.got) /\ me.got.kind # "ERR"
    BY <1>5 DEF IsErr, Errors
  <2>2. me.part = NoPkt /\ ~me.bad
    BY <1>1, <1>2, HandFull
  <2> HIDE DEF y, n, d
  <2>3. /\ x.st = y.st /\ x.long = y.long /\ x.buf = y.buf /\ x.closed = y.closed
        /\ m.in = n.in /\ m.out = n.out
    BY <1>2 DEF Connection, Socket
  <2> HIDE DEF x, m
  <2>4. conn'[me.c] = x /\ net'[me.c] = m /\ Elsewhere(me.c)
    BY <1>2, <1>5 DEF TypeOK, Elsewhere
  <2>5. ASSUME Following(me, y, n) PROVE Resting(x, m)
    <3>1. ~Asked(n) /\ Len(Stream(y, n)) = 0
      BY <1>1, <2>1, <2>5, HandshakeOver DEF HandshakeReads
    <3>2. Stream(x, m) = Stream(y, n) /\ (Asked(m) <=> Asked(n))
      BY <2>3 DEF Stream, Asked
    <3> QED
      BY <3>1, <3>2, EmptyResting
  <2>6. Awaits("authResult", "auth")
    BY DEF Awaits
  <2> QED
    BY <1>2, <1>5, <2>2, <2>3, <2>4, <2>5, <2>6, ReplyAccounted DEF y, n
<1> QED
  BY <1>3, <1>4, <1>5

LEMMA SwitchToTLSAccounted ==
    ASSUME ReplyInv, SwitchToTLS
    PROVE  Manner(me') /\ \A d \in Conn : Accounted(d)'
<1> DEFINE y == conn[me.c]
           n == net[me.c]
           x == [y EXCEPT !.tls = TRUE]
<1>1. me.pc = "tls"
  BY DEF SwitchToTLS
<1>2. /\ TypeOK /\ me \in Caller /\ me.c \in Conn /\ y.st = "dialled" /\ Manner(me)
      /\ y \in Connection /\ n \in Socket
  BY <1>1, ReplyFacts, HandshakeFacts DEF HandshakePCs, St, TypeOK
<1>3. \/ \E e : ConnectFails(e)
      \/ /\ conn' = [conn EXCEPT ![me.c] = x] /\ net' = net
         /\ \E arg : Reply("auth", arg, "authResult")
  BY DEF SwitchToTLS
<1>4. CASE \E e : ConnectFails(e)
  BY <1>2, <1>4, ConnectFailsAccounted
<1>5. CASE /\ conn' = [conn EXCEPT ![me.c] = x] /\ net' = net
           /\ \E arg : Reply("auth", arg, "authResult")
  <2>1. me.part = NoPkt /\ ~me.bad /\ me.pc \notin ReadPCs /\ ~Paused(me)
    BY <1>1, <1>2 DEF Manner, ReadPCs, Paused
  <2> HIDE DEF y, n
  <2>2. Still(y, x) /\ x.more = y.more /\ x.st = y.st /\ x.long = y.long
    BY <1>2 DEF Connection, Still
  <2> HIDE DEF x
  <2>3. conn'[me.c] = x /\ Elsewhere(me.c)
    BY <1>2, <1>5 DEF TypeOK, Elsewhere
  <2>4. Following(me, y, n) => x.closed \/ Resting(x, n)
    BY <2>1, <2>2, StillResting DEF Following, Still
  <2>5. Awaits("authResult", "auth")
    BY DEF Awaits
  <2> QED
    BY <1>2, <1>5, <2>1, <2>2, <2>3, <2>4, <2>5, ReplyAccounted DEF y, n
<1> QED
  BY <1>3, <1>4, <1>5

\* A packet of the authentication answers another.
LEMMA AnswerAccounted ==
    ASSUME ReplyInv, me.pc \in HandshakeReads, me.c \in Conn, conn[me.c].st = "dialled", me.got # NoPkt,
           ~IsErr(me.got), me.got.kind # "ERR", me.got.kind # "FAST",
           NEW cmd, NEW arg, NEW then, Reply(cmd, arg, then), Awaits(then, cmd), UNCHANGED <<conn, net>>
    PROVE  Manner(me') /\ \A d \in Conn : Accounted(d)'
<1>1. me.part = NoPkt /\ ~me.bad
  BY ReplyFacts, HandFull
<1>2. Following(me, conn[me.c], net[me.c]) => Resting(conn[me.c], net[me.c])
  BY HandshakeOver, EmptyResting
<1> QED
  BY <1>1, <1>2, ReplyAccounted DEF Elsewhere

LEMMA HandleAuthResultAccounted ==
    ASSUME ReplyInv, HandleAuthResult
    PROVE  Manner(me') /\ \A d \in Conn : Accounted(d)'
<1> DEFINE x == conn[me.c]
           n == net[me.c]
           s == Stream(x, n)
           eof == ~x.deprecateEOF
<1>1. me.pc = "authResult" /\ me.got # NoPkt /\ me.pc \in HandshakeReads /\ me.pc \in HandshakePCs
  BY DEF HandleAuthResult, HandshakeReads, HandshakePCs
<1>2. /\ TypeOK /\ me \in Caller /\ me.c \in Conn /\ conn[me.c].st = "dialled" /\ Manner(me)
  BY <1>1, ReplyFacts, HandshakeFacts DEF St
<1>3. Awaits("authResult", "authSwitch") /\ Awaits("authOK", "password") /\ Awaits("authKey", "keyRequest")
      /\ Awaits("authOK", "encrypted")
  BY DEF Awaits
<1>4. \/ \E e : ConnectFails(e)
      \/ /\ me.got.kind \in {"SWITCH", "FULL", "KEY"} /\ UNCHANGED <<conn, net>>
         /\ \E arg : \/ Reply("authSwitch", arg, "authResult") \/ Reply("password", arg, "authOK")
                     \/ Reply("keyRequest", arg, "authKey") \/ Reply("encrypted", arg, "authOK")
      \/ me.got.kind = "OK" /\ Connected
      \/ /\ me.got.kind = "FAST" /\ me' = [me EXCEPT !.pc = "authOK", !.got = NoPkt]
         /\ UNCHANGED <<conn, net>>
  BY DEF HandleAuthResult
<1>5. CASE \E e : ConnectFails(e)
  BY <1>2, <1>5, ConnectFailsAccounted
<1>6. CASE /\ me.got.kind \in {"SWITCH", "FULL", "KEY"} /\ UNCHANGED <<conn, net>>
           /\ \E arg : \/ Reply("authSwitch", arg, "authResult") \/ Reply("password", arg, "authOK")
                       \/ Reply("keyRequest", arg, "authKey") \/ Reply("encrypted", arg, "authOK")
  <2>1. ~IsErr(me.got) /\ me.got.kind # "ERR" /\ me.got.kind # "FAST"
    BY <1>6 DEF IsErr, Errors
  <2> QED
    BY <1>1, <1>2, <1>3, <1>6, <2>1, AnswerAccounted
<1>7. CASE me.got.kind = "OK" /\ Connected
  BY <1>1, <1>2, <1>7, ConnectedAccounted
<1>8. CASE /\ me.got.kind = "FAST" /\ me' = [me EXCEPT !.pc = "authOK", !.got = NoPkt]
           /\ UNCHANGED <<conn, net>>
  <2>1. /\ me'.pc = "authOK" /\ me'.got = NoPkt /\ me'.part = me.part /\ me'.bad = me.bad /\ me'.n = me.n
        /\ me'.mode = me.mode /\ me'.kind = me.kind /\ me'.c = me.c
    BY <1>2, <1>8 DEF Caller
  <2>2. me.part = NoPkt /\ ~me.bad
    BY <1>1, <1>2, HandFull
  <2>3. Manner(me') /\ Resumes(me, me') /\ me'.pc \in ReadPCs
    BY <1>2, <2>1, <2>2, PlainManner DEF Resumes, ReadPCs
  <2>4. ~IsErr(me.got) /\ me.got.kind # "ERR"
    BY <1>8 DEF IsErr, Errors
  <2> HIDE DEF x, n, s, eof
  <2>5. ASSUME Following(me, x, n) PROVE Following(me', x, n)
    <3>1. Receiving(me, x, n) /\ Rest(me, s, eof)
      BY <1>1, <2>4, <2>5, HandshakeOver DEF s, eof
    <3>2. HandshakeRest(me, s)
      BY <1>1, <3>1, RestKinds
    <3>3. HandshakeRest(me', s)
      BY <1>1, <1>8, <2>1, <2>2, <3>2 DEF HandshakeRest
    <3>4. Rest(me', s, eof)
      BY <2>1, <3>3, RestKinds DEF HandshakeReads
    <3>5. Receiving(me', x, n)
      BY <2>1, <2>3, <3>1, <3>4, StillItself, ReadOn DEF s, eof
    <3> QED
      BY <2>3, <3>5, HearingFollowing DEF Hearing
  <2>6. Elsewhere(me.c)
    BY <1>8 DEF Elsewhere
  <2> QED
    BY <1>2, <1>8, <2>1, <2>3, <2>5, <2>6, ConnectAccounted DEF x, n
<1> QED
  BY <1>4, <1>5, <1>6, <1>7, <1>8

LEMMA ReadPublicKeyAccounted ==
    ASSUME ReplyInv, ReadPublicKey
    PROVE  Manner(me') /\ \A d \in Conn : Accounted(d)'
<1>1. me.pc = "authKey" /\ me.got # NoPkt /\ me.pc \in HandshakeReads /\ me.pc \in HandshakePCs
  BY DEF ReadPublicKey, HandshakeReads, HandshakePCs
<1>2. me.c \in Conn /\ conn[me.c].st = "dialled"
  BY <1>1, ReplyFacts, HandshakeFacts DEF St
<1>3. \/ \E e : ConnectFails(e)
      \/ me.got.kind = "KEY" /\ UNCHANGED <<conn, net>> /\ Reply("encrypted", Sha2, "authOK")
  BY DEF ReadPublicKey
<1>4. CASE me.got.kind = "KEY" /\ UNCHANGED <<conn, net>> /\ Reply("encrypted", Sha2, "authOK")
  <2>1. ~IsErr(me.got) /\ me.got.kind # "ERR" /\ me.got.kind # "FAST"
    BY <1>4 DEF IsErr, Errors
  <2>2. Awaits("authOK", "encrypted")
    BY DEF Awaits
  <2> QED
    BY <1>1, <1>2, <1>4, <2>1, <2>2, AnswerAccounted
<1> QED
  BY <1>2, <1>3, <1>4, ConnectFailsAccounted

LEMMA ReadAuthOKAccounted ==
    ASSUME ReplyInv, ReadAuthOK \/ HandshakeWriteFails
    PROVE  Manner(me') /\ \A d \in Conn : Accounted(d)'
<1>1. CASE ReadAuthOK
  <2>1. me.pc = "authOK" /\ me.got # NoPkt /\ me.pc \in HandshakeReads /\ me.pc \in HandshakePCs
    BY <1>1 DEF ReadAuthOK, HandshakeReads, HandshakePCs
  <2>2. me.c \in Conn /\ conn[me.c].st = "dialled"
    BY <2>1, ReplyFacts, HandshakeFacts DEF St
  <2>3. (\E e : ConnectFails(e)) \/ (me.got.kind = "OK" /\ Connected)
    BY <1>1 DEF ReadAuthOK
  <2> QED
    BY <2>1, <2>2, <2>3, ConnectFailsAccounted, ConnectedAccounted
<1>2. CASE HandshakeWriteFails
  <2>1. me.pc = "failed" /\ \E e : ConnectFails(e)
    BY <1>2 DEF HandshakeWriteFails
  <2>2. me.c \in Conn
    BY <2>1, ReplyFacts DEF CallerInv
  <2> QED
    BY <2>1, <2>2, ConnectFailsAccounted
<1> QED
  BY <1>1, <1>2

\* The greeting is the first packet of a connection.
LEMMA DialAccounted ==
    ASSUME ReplyInv, Dial
    PROVE  Manner(me') /\ \A d \in Conn : Accounted(d)'
<1>1. me.pc = "dial" /\ TypeOK /\ me \in Caller /\ Manner(me) /\ me.c \in Conn
  BY ReplyFacts DEF Dial, CallerInv
<1>2. me.got = NoPkt /\ me.part = NoPkt /\ ~me.bad
  BY <1>1 DEF Manner, ReadPCs
<1> DEFINE k == me.cred
           w == me.n
           x == [NewConn EXCEPT !.st = "dialled", !.watcher = "idle", !.user = k, !.closed = TRUE]
           y == [NewConn EXCEPT !.st = "dialled", !.watcher = "idle", !.user = k,
                                !.watching = TRUE, !.chan = w]
<1>3. PICK cap \in Announced, p \in Plugin \cup {"ERR"} :
         LET hello == IF p = "ERR" THEN Pkt("ERR", "none", 0, me.n) ELSE Pkt("HELLO", p, 0, me.n)
         IN  \/ /\ conn' = [conn EXCEPT ![me.c] = x]
                /\ net' = [net EXCEPT ![me.c] = NewNet]
                /\ me' = [me EXCEPT !.pc = "connectFailed", !.err = "canceled"]
             \/ /\ conn' = [conn EXCEPT ![me.c] = y]
                /\ net' = [net EXCEPT ![me.c] =
                              [NewNet EXCEPT !.out = <<hello>>, !.ssl = cap.ssl, !.eof = cap.eof]]
                /\ me' = [me EXCEPT !.pc = "hello"]
  BY DEF Dial
<1> DEFINE hello == IF p = "ERR" THEN Pkt("ERR", "none", 0, w) ELSE Pkt("HELLO", p, 0, w)
           o == <<hello>>
           ssl == cap.ssl
           eof == cap.eof
           m == [NewNet EXCEPT !.out = o, !.ssl = ssl, !.eof = eof]
<1>4. CASE /\ conn' = [conn EXCEPT ![me.c] = x]
           /\ net' = [net EXCEPT ![me.c] = NewNet]
           /\ me' = [me EXCEPT !.pc = "connectFailed", !.err = "canceled"]
  <2>1. /\ me'.pc = "connectFailed" /\ me'.got = NoPkt /\ me'.part = NoPkt /\ ~me'.bad /\ me'.c = me.c
        /\ me'.mode = me.mode /\ me'.kind = me.kind
    BY <1>1, <1>2, <1>4 DEF Caller
  <2>2. x.closed = TRUE
    BY DEF NewConn
  <2> HIDE DEF x
  <2>3. conn'[me.c] = x /\ Elsewhere(me.c)
    BY <1>1, <1>4 DEF TypeOK, Elsewhere
  <2>4. Manner(me')
    BY <1>1, <2>1, PlainManner
  <2>5. Following(me', x, net'[me.c])
    BY <2>1, <2>2, RestingFollowing DEF ReadPCs
  <2> QED
    BY <1>1, <2>1, <2>3, <2>4, <2>5, MineAccounted
<1>5. CASE /\ conn' = [conn EXCEPT ![me.c] = y]
           /\ net' = [net EXCEPT ![me.c] = m]
           /\ me' = [me EXCEPT !.pc = "hello"]
  <2>1. /\ me'.pc = "hello" /\ me'.got = NoPkt /\ me'.part = NoPkt /\ ~me'.bad /\ me'.c = me.c
        /\ me'.mode = me.mode /\ me'.kind = me.kind /\ me'.n = w
    BY <1>1, <1>2, <1>5 DEF Caller
  <2>2. hello.seq = 0 /\ hello.own = w /\ hello.size = "part"
    BY DEF Pkt
  <2> HIDE DEF hello, w
  <2>3. Len(o) = 1 /\ o[1] = hello /\ DOMAIN o = 1 .. 1
    OBVIOUS
  <2> HIDE DEF o, ssl, eof, k
  <2>4. y.seq = 0 /\ y.buf = <<>> /\ m.in = <<>> /\ m.out = o
    BY DEF NewConn, NewNet
  <2> HIDE DEF y, m
  <2>5. conn'[me.c] = y /\ net'[me.c] = m /\ Elsewhere(me.c)
    BY <1>1, <1>5 DEF TypeOK, Elsewhere
  <2>6. Manner(me')
    BY <1>1, <2>1, PlainManner
  <2>7. Stream(y, m) = o
    <3>1. Stream(y, m) = <<>> \o o
      BY <2>4 DEF Stream
    <3> QED
      BY <3>1 DEF o
  <2>8. AllPart(o)
    BY <2>2, <2>3 DEF AllPart
  <2>9. Rest(me', o, ~y.deprecateEOF)
    <3>1. HandshakeRest(me', o)
      BY <2>1, <2>3, <2>8 DEF HandshakeRest
    <3> QED
      BY <2>1, <3>1, RestKinds DEF HandshakeReads
  <2>10. Numbered(o, 0, w)
    BY <2>2, <2>3 DEF Numbered
  <2>11. ~Asked(m)
    BY <2>4 DEF Asked
  <2>12. ~IsErr(NoPkt)
    BY DEF IsErr, NoPkt, Errors
  <2>13. Receiving(me', y, m)
    BY <2>1, <2>4, <2>7, <2>9, <2>10, <2>11, <2>12 DEF Receiving
  <2>14. Following(me', y, m)
    BY <2>1, <2>13, HearingFollowing DEF Hearing, ReadPCs
  <2> QED
    BY <1>1, <2>1, <2>5, <2>6, <2>14, MineAccounted
<1> QED
  BY <1>3, <1>4, <1>5

LEMMA DialFailsAccounted ==
    ASSUME ReplyInv, DialFails
    PROVE  Manner(me') /\ \A d \in Conn : Accounted(d)'
<1>1. me.pc = "dial" /\ me \in Caller /\ Manner(me) /\ me.c \in Conn /\ conn[me.c].st = "none"
  BY ReplyFacts DEF DialFails, CallerInv, St
<1>2. me.got = NoPkt /\ me.part = NoPkt /\ ~me.bad
  BY <1>1 DEF Manner, ReadPCs
<1>3. me' = [me EXCEPT !.pc = "connectFailed", !.c = NoConn, !.err = "ErrSetup"] /\ UNCHANGED <<conn, net>>
  BY DEF DialFails
<1>4. /\ me'.pc = "connectFailed" /\ me'.got = NoPkt /\ me'.part = NoPkt /\ ~me'.bad /\ me'.c = NoConn
      /\ me'.mode = me.mode /\ me'.kind = me.kind
  BY <1>1, <1>2, <1>3 DEF Caller
<1>5. Manner(me')
  BY <1>1, <1>4, PlainManner
<1>6. NoConn \notin Conn
  BY DEF NoConn
<1>7. PICK c \in Conn : c = me.c
  BY <1>1
<1>8. Accounted(c)' /\ Elsewhere(c)
  BY <1>1, <1>3, <1>4, <1>6, <1>7 DEF Accounted, Elsewhere
<1> QED
  BY <1>4, <1>5, <1>6, <1>7, <1>8, OneAccounted
-----------------------------------------------------------------------------
(* The pool                                                                 *)

\* A call that holds no connection.
Unattached(p) ==
    /\ p.pc \in {"idle", "conn"} /\ p.mode = "none" /\ p.c = NoConn
    /\ p.got = NoPkt /\ p.part = NoPkt /\ ~p.bad

LEMMA ApartManner ==
    ASSUME NEW p, Unattached(p)
    PROVE  Manner(p)
BY DEF Unattached, Manner, ReadPCs

LEMMA ReturnApart ==
    ASSUME Return
    PROVE  Unattached(me')
BY DEF Return, Unattached, NoCaller

LEMMA GiveUpApart ==
    ASSUME me \in Caller, NEW e, GiveUpConn(e)
    PROVE  Unattached(me')
<1>1. CASE Retry(e)
  <2> DEFINE t == me.tries + 1
             w == me.n
             k == me.kind
             u == me.cred
  <2>1. me' = [NoCaller EXCEPT !.n = w, !.kind = k, !.cred = u, !.tries = t, !.pc = "conn"]
    BY <1>1 DEF GiveUpConn
  <2> HIDE DEF t, w, k, u
  <2> QED
    BY <2>1 DEF Unattached, NoCaller
<1>2. CASE ~Retry(e)
  BY <1>2, ReturnApart DEF GiveUpConn
<1> QED
  BY <1>1, <1>2

LEMMA ConnNumbers == NoConn \notin Conn
BY DEF NoConn

LEMMA DropElsewhere ==
    ASSUME TypeOK, NEW c \in Conn, Drop(c)
    PROVE  Elsewhere(c) /\ conn'[c].st = "dropped"
<1> DEFINE pending == \E i \in DOMAIN net[c].in : net[c].in[i].last /\ net[c].in[i].cmd \in Main
           u == IF pending THEN "up" ELSE "gone"
           i == IF pending THEN net[c].in ELSE <<>>
           m == [NewNet EXCEPT !.up = u, !.in = i]
<1>1. net' = [net EXCEPT ![c] = m]
  BY Zenon DEF Drop
<1> HIDE DEF m
<1>2. \A d \in Conn : d # c => net'[d] = net[d]
  BY <1>1 DEF TypeOK
<1> QED
  BY <1>2, DropEffect DEF Elsewhere

\* The call lets go of its connection, which is dropped, or at rest.
LEMMA LetGo ==
    ASSUME ReplyInv, me.c \in Conn, me.pc \notin ReadPCs, ~Paused(me), Unattached(me'),
           UNCHANGED <<conn, net>> \/ Drop(me.c)
    PROVE  Manner(me') /\ \A d \in Conn : Accounted(d)'
<1>1. Manner(me')
  BY ApartManner
<1>2. PICK c \in Conn : c = me.c
  OBVIOUS
<1>3. me'.c = NoConn /\ me'.c # c /\ TypeOK /\ Accounted(c)
  BY ConnNumbers, ReplyFacts DEF Unattached, ReplyInv
<1>4. CASE Drop(me.c)
  <2>1. Elsewhere(c) /\ conn'[c].st = "dropped"
    BY <1>2, <1>3, <1>4, DropElsewhere
  <2>2. Accounted(c)'
    BY <2>1 DEF Accounted
  <2> QED
    BY <1>1, <1>2, <1>3, <2>1, <2>2, ConnNumbers, OneAccounted
<1>5. CASE UNCHANGED <<conn, net>>
  <2>1. Following(me, conn[c], net[c]) => conn[c].closed \/ Resting(conn[c], net[c])
    BY DEF Following
  <2>2. Accounted(c)'
    BY <1>2, <1>3, <1>5, <2>1 DEF Accounted
  <2>3. Elsewhere(c)
    BY <1>5 DEF Elsewhere
  <2> QED
    BY <1>1, <1>2, <1>3, <2>2, <2>3, ConnNumbers, OneAccounted
<1> QED
  BY <1>4, <1>5

LEMMA UnusedAccounted ==
    ASSUME ReplyInv, me.c = NoConn, me'.c = NoConn, UNCHANGED <<conn, net>>
    PROVE  \A d \in Conn : Accounted(d)'
<1>1. ASSUME NEW d \in Conn PROVE Accounted(d)'
  BY ConnNumbers DEF ReplyInv, Accounted
<1> QED
  BY <1>1

LEMMA TakeConnAccounted ==
    ASSUME ReplyInv, TakeConn
    PROVE  Manner(me') /\ \A d \in Conn : Accounted(d)'
<1>1. me.pc = "conn" /\ me.c = NoConn /\ me \in Caller /\ Manner(me) /\ TypeOK /\ UNCHANGED <<conn, net>>
  BY ReplyFacts DEF TakeConn, CallerInv
<1>2. me.got = NoPkt /\ me.part = NoPkt /\ ~me.bad
  BY <1>1 DEF Manner, ReadPCs
<1>3. \/ Return
      \/ \E c \in Conn : \E pc \in {"reset", "dial"} :
            me' = [me EXCEPT !.pc = pc, !.c = c] /\ (pc = "dial" => conn[c].st = "none")
  BY <1>1, Zenon DEF TakeConn, Fresh, TypeOK
<1>4. CASE Return
  BY <1>1, <1>4, ReturnApart, ApartManner, UnusedAccounted DEF Unattached
<1>5. ASSUME NEW c \in Conn, NEW pc \in {"reset", "dial"}, me' = [me EXCEPT !.pc = pc, !.c = c],
             pc = "dial" => conn[c].st = "none"
      PROVE  Manner(me') /\ \A d \in Conn : Accounted(d)'
  <2>1. /\ me'.pc = pc /\ me'.c = c /\ me'.got = NoPkt /\ me'.part = NoPkt /\ ~me'.bad
        /\ me'.mode = me.mode /\ me'.kind = me.kind
    BY <1>1, <1>2, <1>5 DEF Caller
  <2>2. Manner(me') /\ ~Paused(me')
    BY <1>1, <2>1, PlainManner DEF Paused
  <2>3. conn[c].st \in {"dialled", "ready"} /\ ~conn[c].long => conn[c].closed \/ Resting(conn[c], net[c])
    BY <1>1, ConnNumbers DEF ReplyInv, Accounted
  <2>4. conn[c].closed \/ Resting(conn[c], net[c]) => Following(me', conn[c], net[c])
    BY <2>1, <2>2, RestingFollowing DEF ReadPCs
  <2>5. Accounted(c)'
    BY <1>1, <2>1, <2>3, <2>4 DEF Accounted
  <2>6. Elsewhere(c)
    BY <1>1 DEF Elsewhere
  <2> QED
    BY <1>1, <2>1, <2>2, <2>5, <2>6, ConnNumbers, OneAccounted
<1> QED
  BY <1>3, <1>4, <1>5, Zenon

LEMMA ConnectFailedAccounted ==
    ASSUME ReplyInv, ConnectFailed
    PROVE  Manner(me') /\ \A d \in Conn : Accounted(d)'
<1>1. me.pc = "connectFailed" /\ Unattached(me') /\ me \in Caller
  BY ReplyFacts, ReturnApart DEF ConnectFailed
<1>2. me.pc \notin ReadPCs /\ ~Paused(me) /\ me'.c = NoConn
  BY <1>1 DEF ReadPCs, Paused, Unattached
<1>3. me.c \in Conn \cup {NoConn}
  BY <1>1 DEF Caller
<1>4. CASE me.c = NoConn
  BY <1>1, <1>2, <1>4, ApartManner, UnusedAccounted DEF ConnectFailed
<1>5. CASE me.c \in Conn
  BY <1>1, <1>2, <1>5, LetGo DEF ConnectFailed
<1> QED
  BY <1>3, <1>4, <1>5

LEMMA ReleaseAccounted ==
    ASSUME ReplyInv, Release
    PROVE  Manner(me') /\ \A d \in Conn : Accounted(d)'
<1>1. me.pc = "release" /\ me \in Caller /\ me.c \in Conn
  BY ReplyFacts DEF Release, CallerInv
<1>2. Unattached(me')
  BY <1>1, GiveUpApart DEF Release
<1>3. me.pc \notin ReadPCs /\ ~Paused(me)
  BY <1>1 DEF ReadPCs, Paused
<1> QED
  BY <1>1, <1>2, <1>3, LetGo DEF Release

\* A step on a connection nothing is read from, which stays as it is.
LEMMA LeisureAccounted ==
    ASSUME ReplyInv, me.c \in Conn, me.pc \notin ReadPCs, ~Paused(me),
           me'.pc \notin ReadPCs \cup {"write"}, ~Paused(me'), me'.c = me.c, Elsewhere(me.c),
           Still(conn[me.c], conn'[me.c]), conn'[me.c].more = conn[me.c].more,
           conn'[me.c].long = conn[me.c].long, net'[me.c] = net[me.c]
    PROVE  \A d \in Conn : Accounted(d)'
<1>1. Following(me, conn[me.c], net[me.c]) => conn[me.c].closed \/ Resting(conn[me.c], net[me.c])
  BY DEF Following
<1>2. Resting(conn[me.c], net[me.c]) => Resting(conn'[me.c], net[me.c])
  BY StillResting
<1>3. conn'[me.c].closed \/ Resting(conn'[me.c], net[me.c]) => Following(me', conn'[me.c], net[me.c])
  BY RestingFollowing
<1>4. Accounted(me.c) /\ conn'[me.c].st = conn[me.c].st /\ conn'[me.c].closed = conn[me.c].closed
  BY DEF ReplyInv, Still
<1> QED
  BY <1>1, <1>2, <1>3, <1>4, MineAccounted DEF Accounted

LEMMA ResetSessionAccounted ==
    ASSUME ReplyInv, ResetSession
    PROVE  Manner(me') /\ \A d \in Conn : Accounted(d)'
<1>1. me.pc = "reset" /\ me \in Caller /\ me.c \in Conn /\ Manner(me)
  BY ReplyFacts DEF ResetSession, CallerInv
<1>2. me.pc \notin ReadPCs /\ ~Paused(me)
  BY <1>1 DEF ReadPCs, Paused
<1>3. \/ Drop(me.c) /\ GiveUpConn("ErrBadConn")
      \/ me' = [me EXCEPT !.pc = "watch"] /\ UNCHANGED <<conn, net>>
  BY DEF ResetSession
<1>4. CASE Drop(me.c) /\ GiveUpConn("ErrBadConn")
  BY <1>1, <1>2, <1>4, GiveUpApart, LetGo
<1>5. CASE me' = [me EXCEPT !.pc = "watch"] /\ UNCHANGED <<conn, net>>
  <2>1. /\ me'.pc = "watch" /\ me'.c = me.c /\ me'.got = me.got /\ me'.part = me.part /\ me'.bad = me.bad
        /\ me'.mode = me.mode /\ me'.kind = me.kind
    BY <1>1, <1>5 DEF Caller
  <2>2. me.got = NoPkt /\ me.part = NoPkt /\ ~me.bad
    BY <1>1, <1>2 DEF Manner
  <2>3. Manner(me') /\ ~Paused(me')
    BY <1>1, <2>1, <2>2, PlainManner DEF Paused
  <2> QED
    BY <1>1, <1>2, <1>5, <2>1, <2>3, LeisureAccounted, StillItself DEF ReadPCs, Elsewhere
<1> QED
  BY <1>3, <1>4, <1>5

LEMMA IdleCloseAccounted ==
    ASSUME ReplyInv, NEW c \in Conn, IdleClose(c)
    PROVE  Manner(me') /\ \A d \in Conn : Accounted(d)'
<1>1. TypeOK /\ UNCHANGED me /\ Drop(c) /\ Manner(me)
  BY ReplyFacts DEF IdleClose
<1>2. Elsewhere(c) /\ conn'[c].st = "dropped"
  BY <1>1, DropElsewhere
<1>3. Accounted(c)'
  BY <1>2 DEF Accounted
<1> QED
  BY <1>1, <1>2, <1>3, OneAccounted

LEMMA StartCallAccounted ==
    ASSUME ReplyInv, StartCall
    PROVE  Manner(me') /\ \A d \in Conn : Accounted(d)'
<1>1. me.pc = "idle" /\ me.c = NoConn /\ UNCHANGED <<conn, net>>
  BY ReplyFacts DEF StartCall, CallerInv
<1>2. Unattached(me')
  <2>1. \E n, k, r : \/ me' = [NoCaller EXCEPT !.n = n]
                     \/ me' = [NoCaller EXCEPT !.n = n, !.pc = "conn", !.kind = k, !.cred = r]
    BY DEF StartCall
  <2> QED
    BY <2>1 DEF Unattached, NoCaller
<1> QED
  BY <1>1, <1>2, ApartManner, UnusedAccounted DEF Unattached

-----------------------------------------------------------------------------
\* The caller goes on where nothing is read or written.
LEMMA MovesOn ==
    ASSUME me \in Caller, Manner(me), me.pc \in {"watch", "stmt"},
           NEW pc \in {"release", "send", "execute", "closeStmt"}, NEW e,
           me' = [me EXCEPT !.pc = pc] \/ me' = [me EXCEPT !.pc = pc, !.err = e]
    PROVE  /\ Manner(me') /\ me'.c = me.c /\ me'.pc = pc /\ me'.pc \notin ReadPCs \cup {"write"}
           /\ ~Paused(me') /\ me.pc \notin ReadPCs /\ ~Paused(me)
<1>1. /\ me'.pc = pc /\ me'.c = me.c /\ me'.got = me.got /\ me'.part = me.part /\ me'.bad = me.bad
      /\ me'.mode = me.mode /\ me'.kind = me.kind
  <2>1. CASE me' = [me EXCEPT !.pc = pc]
    BY <2>1 DEF Caller
  <2>2. CASE me' = [me EXCEPT !.pc = pc, !.err = e]
    BY <2>2 DEF Caller
  <2> QED
    BY <2>1, <2>2
<1>2. me.pc \notin ReadPCs /\ ~Paused(me) /\ me'.pc \notin ReadPCs \cup {"write"} /\ ~Paused(me')
  BY <1>1 DEF ReadPCs, Paused
<1>3. me.got = NoPkt /\ me.part = NoPkt /\ ~me.bad
  BY <1>2 DEF Manner
<1>4. Manner(me')
  BY <1>1, <1>3, PlainManner
<1> QED
  BY <1>1, <1>2, <1>4

LEMMA HandAccounted ==
    ASSUME ReplyInv, me.c \in Conn, me.pc \in {"watch", "stmt"},
           NEW pc \in {"send", "execute"}, HandContext(pc)
    PROVE  Manner(me') /\ \A d \in Conn : Accounted(d)'
<1> DEFINE y == conn[me.c]
           n == me.n
           x == [y EXCEPT !.watching = TRUE, !.chan = n]
<1>1. TypeOK /\ me \in Caller /\ Manner(me) /\ y \in Connection
  BY ReplyFacts DEF TypeOK
<1>2. conn' = [conn EXCEPT ![me.c] = x] /\ net' = net /\ me' = [me EXCEPT !.pc = pc]
  BY <1>1 DEF HandContext, TypeOK
<1> HIDE DEF y, n
<1>3. /\ x.st = y.st /\ x.buf = y.buf /\ x.deprecateEOF = y.deprecateEOF
      /\ x.more = y.more /\ x.long = y.long /\ x.closed = y.closed
  BY <1>1 DEF Connection
<1> HIDE DEF x
<1>4. conn'[me.c] = x /\ Elsewhere(me.c)
  BY <1>1, <1>2 DEF TypeOK, Elsewhere
<1>5. Still(conn[me.c], conn'[me.c]) /\ conn'[me.c].more = conn[me.c].more
      /\ conn'[me.c].long = conn[me.c].long /\ net'[me.c] = net[me.c]
  BY <1>2, <1>3, <1>4 DEF Still, y
<1>6. /\ Manner(me') /\ me'.c = me.c /\ me'.pc \notin ReadPCs \cup {"write"}
      /\ ~Paused(me') /\ me.pc \notin ReadPCs /\ ~Paused(me)
  BY <1>1, <1>2, MovesOn
<1> QED
  BY <1>4, <1>5, <1>6, LeisureAccounted

\* Nothing happens to any connection.
LEMMA OnwardAccounted ==
    ASSUME ReplyInv, me.c \in Conn, me.pc \in {"watch", "stmt"},
           NEW pc \in {"release", "closeStmt"}, NEW e,
           me' = [me EXCEPT !.pc = pc, !.err = e], UNCHANGED <<conn, net>>
    PROVE  Manner(me') /\ \A d \in Conn : Accounted(d)'
<1>1. me \in Caller /\ Manner(me)
  BY ReplyFacts
<1>2. /\ Manner(me') /\ me'.c = me.c /\ me'.pc \notin ReadPCs \cup {"write"}
      /\ ~Paused(me') /\ me.pc \notin ReadPCs /\ ~Paused(me)
  BY <1>1, MovesOn
<1> QED
  BY <1>2, LeisureAccounted, StillItself DEF Elsewhere

LEMMA WatchAccounted ==
    ASSUME ReplyInv, TypeOK', Watch
    PROVE  Manner(me') /\ \A d \in Conn : Accounted(d)'
<1>1. me.pc = "watch" /\ me \in Caller /\ me.c \in Conn /\ TypeOK /\ Manner(me)
  BY ReplyFacts DEF Watch, CallerInv
<1>2. \/ me' = [me EXCEPT !.pc = "release", !.err = "ErrBadConn"] /\ UNCHANGED <<conn, net>>
      \/ me' = [me EXCEPT !.pc = "release", !.err = "canceled"] /\ UNCHANGED <<conn, net>>
      \/ Cleanup(me.c) /\ me' = [me EXCEPT !.pc = "send"]
      \/ HandContext("send")
  BY DEF Watch, WatchCancel
<1>3. CASE me' = [me EXCEPT !.pc = "release", !.err = "ErrBadConn"] /\ UNCHANGED <<conn, net>>
  BY <1>1, <1>3, OnwardAccounted
<1>4. CASE me' = [me EXCEPT !.pc = "release", !.err = "canceled"] /\ UNCHANGED <<conn, net>>
  BY <1>1, <1>4, OnwardAccounted
<1>5. CASE Cleanup(me.c) /\ me' = [me EXCEPT !.pc = "send"]
  <2>1. /\ Manner(me') /\ me'.c = me.c /\ me'.pc \notin ReadPCs \cup {"write"}
    BY <1>1, <1>5, MovesOn
  <2>2. Elsewhere(me.c) /\ conn'[me.c].closed = TRUE
    BY <1>1, <1>5, CloseLull
  <2>3. Following(me', conn'[me.c], net'[me.c])
    BY <2>1, <2>2, RestingFollowing
  <2> QED
    BY <1>1, <2>1, <2>2, <2>3, MineAccounted
<1>6. CASE HandContext("send")
  BY <1>1, <1>6, HandAccounted
<1> QED
  BY <1>2, <1>3, <1>4, <1>5, <1>6

LEMMA UseStmtAccounted ==
    ASSUME ReplyInv, UseStmt
    PROVE  Manner(me') /\ \A d \in Conn : Accounted(d)'
<1>1. me.pc = "stmt" /\ me \in Caller /\ me.c \in Conn
  BY ReplyFacts DEF UseStmt, CallerInv
<1>2. \/ me' = [me EXCEPT !.pc = "closeStmt", !.err = "canceled"] /\ UNCHANGED <<conn, net>>
      \/ HandContext("execute")
  BY DEF UseStmt
<1>3. CASE me' = [me EXCEPT !.pc = "closeStmt", !.err = "canceled"] /\ UNCHANGED <<conn, net>>
  BY <1>1, <1>3, OnwardAccounted
<1>4. CASE HandContext("execute")
  BY <1>1, <1>4, HandAccounted
<1> QED
  BY <1>2, <1>3, <1>4

LEMMA UntouchedAccounted ==
    ASSUME ReplyInv, UNCHANGED <<conn, net, me>>
    PROVE  Manner(me') /\ \A d \in Conn : Accounted(d)'
<1>1. \A d \in Conn : Accounted(d) => Accounted(d)'
  BY DEF Accounted
<1> QED
  BY <1>1 DEF ReplyInv
-----------------------------------------------------------------------------
(* The server answers                                                       *)

\* On connection x the server takes what n has received up to the i-th frame,
\* which ends a command, and answers it.
Serves(x, n, p, i) ==
    LET f == n.in[i]
    IN  /\ n.out = <<>> /\ i \in 1 .. Len(n.in) /\ Full(f)
        /\ Len(p.in) = Len(n.in) - i /\ \A k \in 1 .. Len(p.in) : p.in[k] = n.in[i + k]
        /\ x.closed \/ f.cmd \notin Answered => p.out = <<>>
        /\ ~x.closed =>
              /\ Numbered(p.out, Next8(f.seq), f.own)
              /\ \A m \in Caller : Awaits(m.pc, f.cmd) /\ m.got = NoPkt /\ m.part = NoPkt =>
                    Rest(m, p.out, ~x.deprecateEOF)

\* Nobody asked, and nobody is answered.
LEMMA ServesNothing ==
    ASSUME NEW x \in Connection, NEW n \in Socket, NEW p \in Socket, NEW i, Serves(x, n, p, i),
           ~Asked(n)
    PROVE  ~Asked(p) /\ Stream(x, p) = Stream(x, n)
<1>1. n.in \in Seq(ClientFrame) /\ p.in \in Seq(ClientFrame)
  BY DEF Socket
<1>2. Len(n.in) \in Nat /\ DOMAIN n.in = 1 .. Len(n.in) /\ DOMAIN p.in = 1 .. Len(p.in) /\ Len(p.in) \in Nat
  BY <1>1
<1>3. i \in 1 .. Len(n.in) /\ Full(n.in[i]) /\ n.out = <<>> /\ Len(p.in) = Len(n.in) - i
  BY DEF Serves
<1>4. n.in[i].cmd \notin Answered
  BY <1>2, <1>3 DEF Asked
<1>5. Stream(x, p) = Stream(x, n)
  BY <1>3, <1>4 DEF Serves, Stream
<1>6. \A k \in 1 .. Len(p.in) : p.in[k] = n.in[i + k] /\ i + k \in 1 .. Len(n.in)
  BY <1>2, <1>3 DEF Serves
<1>7. ~Asked(p)
  BY <1>2, <1>6 DEF Asked
<1> QED
  BY <1>5, <1>7

LEMMA ServesResting ==
    ASSUME NEW x \in Connection, NEW n \in Socket, NEW p \in Socket, NEW i, Serves(x, n, p, i),
           Resting(x, n)
    PROVE  Resting(x, p)
BY ServesNothing DEF Resting

LEMMA ServesReceiving ==
    ASSUME NEW x \in Connection, NEW n \in Socket, NEW p \in Socket, NEW i, Serves(x, n, p, i),
           NEW m, Receiving(m, x, n)
    PROVE  Receiving(m, x, p)
BY ServesNothing DEF Receiving

LEMMA ServesMixed ==
    ASSUME NEW x \in Connection, NEW n \in Socket, NEW p \in Socket, NEW i, Serves(x, n, p, i),
           NEW m, Mixed(m, x, n)
    PROVE  Mixed(m, x, p)
<1>1. n.out = <<>> /\ x.buf \in Seq(ServerFrame) /\ p.out \in Seq(ServerFrame)
  BY StreamType DEF Serves
<1>2. Prefix(Stream(x, n), Stream(x, p))
  BY <1>1, CutStream DEF Stream
<1>3. Len(Stream(x, n)) \in Nat /\ Len(Stream(x, p)) \in Nat /\ 1 <= Len(Stream(x, n))
  BY StreamType DEF Mixed
<1>4. 1 <= Len(Stream(x, p)) /\ Stream(x, p)[1] = Stream(x, n)[1]
  BY <1>2, <1>3 DEF Prefix
<1> QED
  BY <1>4 DEF Mixed, Stray

\* The call that waited is answered, unless an earlier packet was taken.
LEMMA ServesWaiting ==
    ASSUME NEW x \in Connection, NEW n \in Socket, NEW p \in Socket, NEW i, Serves(x, n, p, i),
           NEW m \in Caller, Waiting(m, x, n)
    PROVE  Waiting(m, x, p) \/ Receiving(m, x, p) \/ Gone(m, x, p)
<1> DEFINE l == Len(n.in)
<1>1. n.in \in Seq(ClientFrame) /\ p.in \in Seq(ClientFrame) /\ l \in Nat
  BY DEF Socket
<1>2. i \in 1 .. l /\ Full(n.in[i]) /\ n.out = <<>> /\ Len(p.in) = l - i
      /\ \A k \in 1 .. Len(p.in) : p.in[k] = n.in[i + k]
  BY DEF Serves
<1>3. /\ Start(m, x) /\ Len(Stream(x, n)) = 0
      /\ l # 0 /\ Full(n.in[l]) /\ Awaits(m.pc, n.in[l].cmd) /\ n.in[l].own = m.n
      /\ Next8(n.in[l].seq) = x.seq
      /\ \A k \in 1 .. l - 1 : Full(n.in[k]) => n.in[k].cmd \notin Answered
  BY DEF Waiting
<1>4. x.buf = <<>> /\ Len(x.buf) = 0
  <2>1. x.buf \in Seq(ServerFrame) /\ n.out \in Seq(ServerFrame)
    BY StreamType
  <2>2. Len(x.buf) + Len(n.out) = 0 /\ Len(x.buf) \in Nat /\ Len(n.out) \in Nat
    BY <1>3, <2>1, Joined DEF Stream
  <2>3. \A a, b \in Nat : a + b = 0 => a = 0
    OBVIOUS
  <2>4. Len(x.buf) = 0
    BY <2>2, <2>3
  <2> QED
    BY <2>1, <2>4
<1>5. Stream(x, p) = p.out
  <2>1. p.out \in Seq(ServerFrame)
    BY StreamType
  <2> QED
    BY <1>4, <2>1 DEF Stream
<1> HIDE DEF l
<1>6. CASE i # l
  <2>1. i \in 1 .. l - 1
    BY <1>1, <1>2, <1>6
  <2>2. Stream(x, p) = Stream(x, n)
    BY <1>2, <1>3, <2>1 DEF Serves, Stream
  <2>3. Len(p.in) # 0 /\ Len(p.in) \in 1 .. Len(p.in) /\ i + Len(p.in) = l
    BY <1>1, <1>2, <2>1
  <2>4. p.in[Len(p.in)] = n.in[l]
    BY <1>2, <2>3
  <2>5. \A k \in 1 .. Len(p.in) - 1 : p.in[k] = n.in[i + k] /\ i + k \in 1 .. l - 1
    BY <1>1, <1>2, <2>1, SMTT(30)
  <2>6. \A k \in 1 .. Len(p.in) - 1 : Full(p.in[k]) => p.in[k].cmd \notin Answered
    BY <1>3, <2>5
  <2> QED
    BY <1>3, <2>2, <2>3, <2>4, <2>6 DEF Waiting
<1>7. CASE i = l
  <2>1. CASE x.closed
    <3>1. p.out = <<>> /\ Len(p.out) = 0
      BY <2>1 DEF Serves
    <3> QED
      BY <1>3, <1>5, <2>1, <3>1 DEF Gone, Start
  <2>2. CASE ~x.closed
    <3>1. Numbered(p.out, x.seq, m.n)
      BY <1>3, <1>7, <2>2 DEF Serves
    <3>2. m.got = NoPkt /\ m.part = NoPkt /\ ~m.bad
      BY <1>3 DEF Start
    <3>3. Rest(m, p.out, ~x.deprecateEOF)
      BY <1>3, <1>7, <2>2, <3>2 DEF Serves
    <3>4. ~Asked(p)
      <4>1. Len(p.in) = 0 /\ DOMAIN p.in = 1 .. Len(p.in)
        BY <1>1, <1>2, <1>7
      <4> QED
        BY <4>1 DEF Asked
    <3>5. ~IsErr(m.got)
      BY <3>2 DEF IsErr, NoPkt, Errors
    <3>6. m.pc = "header" => x.seq \in 1 .. MaxFrames
      BY <1>3 DEF Start
    <3> QED
      BY <1>5, <3>1, <3>2, <3>3, <3>4, <3>5, <3>6 DEF Receiving
  <2> QED
    BY <2>1, <2>2
<1> QED
  BY <1>6, <1>7

LEMMA ServesFollowing ==
    ASSUME NEW x \in Connection, NEW n \in Socket, NEW p \in Socket, NEW i, Serves(x, n, p, i),
           NEW m \in Caller, Following(m, x, n)
    PROVE  Following(m, x, p)
<1>1. m.pc \in ReadPCs => Hearing(m, x, p)
  <2> SUFFICES ASSUME Hearing(m, x, n) PROVE Hearing(m, x, p)
    BY DEF Following
  <2>1. CASE Receiving(m, x, n)
    BY <2>1, ServesReceiving DEF Hearing
  <2>2. CASE Failing(m, x)
    BY <2>2 DEF Hearing
  <2>3. CASE Waiting(m, x, n)
    BY <2>3, ServesWaiting DEF Hearing
  <2>4. CASE Mixed(m, x, n)
    BY <2>4, ServesMixed DEF Hearing
  <2>5. CASE Gone(m, x, n)
    <3>1. x.closed /\ p.out = <<>> /\ n.out = <<>>
      BY <2>5 DEF Gone, Serves
    <3>2. Stream(x, p) = Stream(x, n)
      BY <3>1 DEF Stream
    <3> QED
      BY <2>5, <3>2 DEF Gone, Hearing
  <2> QED
    BY <2>1, <2>2, <2>3, <2>4, <2>5 DEF Hearing
<1>2. Paused(m) /\ ~x.closed => Receiving(m, x, p) /\ (m.rsDone => x.more)
  BY ServesReceiving DEF Following
<1>3. m.pc \notin ReadPCs /\ ~Paused(m) /\ ~x.closed => Resting(x, p)
  BY ServesResting DEF Following
<1>4. m.pc = "write" /\ x.st = "ready" /\ ~x.closed =>
         /\ x.seq + m.left <= MaxFrames
         /\ 1 <= Len(Stream(x, p)) => x.seq = 0 /\ m.left = 1
  <2> SUFFICES ASSUME m.pc = "write", x.st = "ready", ~x.closed
               PROVE  /\ x.seq + m.left <= MaxFrames
                      /\ 1 <= Len(Stream(x, p)) => x.seq = 0 /\ m.left = 1
    OBVIOUS
  <2>1. m.pc \notin ReadPCs /\ ~Paused(m)
    BY DEF ReadPCs, Paused
  <2>2. ~Asked(n)
    BY <2>1 DEF Following, Resting
  <2>3. Stream(x, p) = Stream(x, n)
    BY <2>2, ServesNothing
  <2> QED
    BY <2>3 DEF Following
<1> QED
  BY <1>1, <1>2, <1>3, <1>4 DEF Following

LEMMA ServesAccounted ==
    ASSUME ReplyInv, TypeOK', NEW c \in Conn, NEW i, Serves(conn[c], net[c], net'[c], i),
           UNCHANGED <<conn, me>>, Elsewhere(c)
    PROVE  Manner(me') /\ \A d \in Conn : Accounted(d)'
<1>1. /\ conn[c] \in Connection /\ net[c] \in Socket /\ net'[c] \in Socket /\ conn'[c] = conn[c]
      /\ me \in Caller /\ me' = me /\ Manner(me) /\ Accounted(c)
  BY ReplyFacts DEF TypeOK, ReplyInv
<1>2. Accounted(c)'
  <2>1. Following(me, conn[c], net[c]) => Following(me, conn[c], net'[c])
    BY <1>1, ServesFollowing
  <2>2. Resting(conn[c], net[c]) => Resting(conn[c], net'[c])
    BY <1>1, ServesResting
  <2> QED
    BY <1>1, <2>1, <2>2 DEF Accounted
<1> QED
  BY <1>1, <1>2, OneAccounted
-----------------------------------------------------------------------------
\* s is the reply r, frame by frame.
Spells(s, r) ==
    Len(s) = Len(r) /\ \A k \in 1 .. Len(r) : s[k].kind = r[k].kind /\ s[k].size = r[k].size

LEMMA SpelledForm ==
    ASSUME NEW s \in Seq(ServerFrame), NEW r \in Seq(ReplyFrame), Spells(s, r)
    PROVE  /\ AllPart(r) => AllPart(s)
           /\ HeadNext(r) => HeadNext(s)
           /\ \A eof \in BOOLEAN : WellFormed(r, eof) => WellFormed(s, eof)
<1>1. Len(s) \in Nat /\ Len(r) = Len(s) /\ DOMAIN s = 1 .. Len(s) /\ DOMAIN r = 1 .. Len(s)
      /\ \A k \in Nat : 1 <= k /\ k <= Len(s) => s[k].kind = r[k].kind /\ s[k].size = r[k].size
  BY DEF Spells
<1>2. (AllPart(r) => AllPart(s)) /\ (HeadNext(r) => HeadNext(s))
  BY <1>1 DEF AllPart, HeadNext
<1>3. ASSUME NEW k \in Nat, NEW m \in Nat, NEW eof \in BOOLEAN, Metadata(r, k, m, eof)
      PROVE  Metadata(s, k, m, eof)
  <2>1. \A j \in 1 .. m : k + j <= Len(s) => s[k + j].kind = "COL"
    BY <1>1, <1>3 DEF Metadata
  <2>2. k + m + 1 <= Len(s) => s[k + m + 1].kind = r[k + m + 1].kind
    BY <1>1
  <2>3. k + m + 2 <= Len(s) => s[k + m + 2].kind = r[k + m + 2].kind
    BY <1>1
  <2> QED
    BY <1>1, <1>3, <2>1, <2>2, <2>3 DEF Metadata
<1>4. ASSUME NEW k \in Nat, NEW a, NEW z, NEW eof \in BOOLEAN, Continues(r, k, a, z, eof)
      PROVE  Continues(s, k, a, z, eof)
  <2>1. a = "HDR" => Metadata(s, k, Columns, eof)
    BY <1>3, <1>4 DEF Continues
  <2>2. k + 1 <= Len(s) => s[k + 1].kind = r[k + 1].kind
    BY <1>1
  <2> QED
    BY <1>1, <1>4, <2>1, <2>2, Zenon DEF Continues
<1>5. ASSUME NEW eof \in BOOLEAN, WellFormed(r, eof) PROVE WellFormed(s, eof)
  <2>1. ASSUME NEW k \in DOMAIN s
        PROVE  /\ k \in Nat /\ k \in DOMAIN r /\ s[k].kind = r[k].kind /\ s[k].size = r[k].size
    BY <1>1, <2>1
  <2> QED
    BY <1>4, <1>5, <2>1 DEF WellFormed, Fits, Empty
<1> QED
  BY <1>2, <1>5

LEMMA ShortForm ==
    ASSUME NEW s \in Seq(ServerFrame), Len(s) = 1, s[1].kind \in {"OK", "ERR"}, s[1].size = "part",
           NEW eof \in BOOLEAN
    PROVE  WellFormed(s, eof) /\ HeadNext(s) /\ AllPart(s)
<1>1. DOMAIN s = {1}
  OBVIOUS
<1>2. Continues(s, 1, s[1].kind, s[1].size, eof) /\ Fits(s[1]) /\ Empty(s[1])
  BY DEF Continues, Fits, Empty
<1>3. HeadNext(s)
  BY DEF HeadNext, HeadKinds
<1>4. AllPart(s)
  BY DEF AllPart
<1> QED
  BY <1>1, <1>2, <1>3, <1>4 DEF WellFormed
LEMMA JoinedParts ==
    ASSUME NEW a \in Seq(ReplyFrame), NEW b \in Seq(ReplyFrame), AllPart(a), AllPart(b)
    PROVE  /\ a \o b \in Seq(ReplyFrame) /\ AllPart(a \o b) /\ Len(a \o b) = Len(a) + Len(b)
           /\ Len(a) \in Nat /\ Len(b) \in Nat /\ (1 <= Len(a) => (a \o b)[1] = a[1])
<1>1. a \o b \in Seq(ReplyFrame) /\ Len(a \o b) = Len(a) + Len(b) /\ Len(a) \in Nat /\ Len(b) \in Nat
  OBVIOUS
<1>2. \A i \in 1 .. Len(a) + Len(b) : (a \o b)[i] = IF i <= Len(a) THEN a[i] ELSE b[i - Len(a)]
  OBVIOUS
<1>3. ASSUME NEW i \in 1 .. Len(a \o b) PROVE (a \o b)[i].size = "part"
  <2>1. CASE i <= Len(a)
    BY <1>1, <1>2, <1>3, <2>1 DEF AllPart
  <2>2. CASE ~(i <= Len(a))
    <3>1. i - Len(a) \in 1 .. Len(b)
      BY <1>1, <1>3, <2>2
    <3> QED
      BY <1>1, <1>2, <1>3, <2>2, <3>1 DEF AllPart
  <2> QED
    BY <2>1, <2>2
<1>4. 1 <= Len(a) => (a \o b)[1] = a[1]
  BY <1>1, <1>2
<1>5. AllPart(a \o b)
  BY <1>3 DEF AllPart
<1> QED
  BY <1>1, <1>4, <1>5

\* The answer to a prepare.
LEMMA PreparedForm ==
    ASSUME NEW d \in BOOLEAN, NEW r \in Answers("prepare", d)
    PROVE  /\ AllPart(r) /\ Len(r) \in Nat
           /\ Len(r) <= 2 + 2 * (IF d THEN 0 ELSE 1) + Columns
           /\ 1 < Len(r) => r[1].kind # "ERR"
<1> DEFINE F(k) == [kind |-> k, size |-> "part"]
           cols == [i \in 1 .. Columns |-> F("COL")]
           eof == IF d THEN <<>> ELSE <<F("EOF")>>
           err == <<F("ERR")>>
           head == <<F("OK"), F("COL")>>
           e == IF d THEN 0 ELSE 1
<1>1. r = err \/ r = head \o eof \o cols \o eof
  BY DEF Answers
<1>2. /\ F("OK") \in ReplyFrame /\ F("ERR") \in ReplyFrame /\ F("COL") \in ReplyFrame
      /\ F("EOF") \in ReplyFrame
  BY DEF ReplyFrame, PacketKind, Size
<1>3. /\ head \in Seq(ReplyFrame) /\ AllPart(head) /\ Len(head) = 2 /\ head[1].kind = "OK"
  BY <1>2 DEF AllPart
<1>4. eof \in Seq(ReplyFrame) /\ AllPart(eof) /\ Len(eof) = e
  <2>1. CASE d
    BY <2>1 DEF AllPart
  <2>2. CASE ~d
    BY <1>2, <2>2 DEF AllPart
  <2> QED
    BY <2>1, <2>2
<1>5. cols \in Seq(ReplyFrame) /\ AllPart(cols) /\ Len(cols) = Columns
  BY <1>2 DEF AllPart
<1>6. AllPart(err) /\ Len(err) = 1
  BY DEF AllPart
<1>9. e \in Nat /\ Columns \in Nat
  OBVIOUS
<1>10. e = IF d THEN 0 ELSE 1
  OBVIOUS
<1> HIDE DEF F, head, eof, cols, err, e
<1>11. /\ AllPart(r) /\ Len(r) \in Nat
       /\ Len(r) <= 2 + 2 * e + Columns
       /\ 1 < Len(r) => r[1].kind # "ERR"
  <2>1. CASE r = err
    <3>1. AllPart(r) /\ Len(r) = 1
      BY <1>6, <2>1
    <3>2. Len(r) <= 2 + 2 * e + Columns
      BY <1>9, <3>1
    <3> QED
      BY <3>1, <3>2
  <2>2. CASE r = head \o eof \o cols \o eof
    <3> DEFINE a == head \o eof
               b == a \o cols
    <3>1. a \in Seq(ReplyFrame) /\ AllPart(a) /\ Len(a) = 2 + e /\ a[1].kind = "OK"
      <4>1. 1 <= Len(head)
        BY <1>3
      <4>2. /\ head \o eof \in Seq(ReplyFrame) /\ AllPart(head \o eof)
            /\ Len(head \o eof) = Len(head) + Len(eof) /\ (head \o eof)[1] = head[1]
        BY <1>3, <1>4, <4>1, JoinedParts
      <4> QED
        BY <1>3, <1>4, <4>2
    <3> HIDE DEF a
    <3>3. 1 <= Len(a)
      BY <3>1, <1>9
    <3>4. b \in Seq(ReplyFrame) /\ AllPart(b) /\ Len(b) = 2 + e + Columns /\ b[1].kind = "OK"
      BY <1>5, <3>1, <3>3, JoinedParts
    <3> HIDE DEF b
    <3>5. 1 <= Len(b)
      BY <1>9, <3>4
    <3>6. r = b \o eof
      BY <2>2 DEF a, b
    <3>7. AllPart(r) /\ Len(r) = 2 + e + Columns + e /\ r[1].kind = "OK"
      BY <1>4, <3>4, <3>5, <3>6, JoinedParts
    <3> QED
      BY <1>9, <3>7
  <2> QED
    BY <1>1, <2>1, <2>2
<1> QED
  BY <1>10, <1>11

\* An answer is what the reader of it takes it for.
LEMMA AnswerRest ==
    ASSUME NEW d \in BOOLEAN, NEW cmd \in Sent \ AuthCmds, NEW r \in Answers(cmd, d),
           NEW s \in Seq(ServerFrame), Spells(s, r),
           NEW m, Awaits(m.pc, cmd), m.got = NoPkt, m.part = NoPkt
    PROVE  Rest(m, s, ~d)
<1>1. r \in Seq(ReplyFrame) /\ Len(r) \in Nat /\ Len(s) = Len(r)
  BY AnswersType DEF Spells
<1>2. 1 <= Len(s) => s[1].kind = r[1].kind /\ s[1].size = r[1].size
  BY <1>1 DEF Spells
<1>3. (AllPart(r) => AllPart(s)) /\ (HeadNext(r) => HeadNext(s)) /\ (WellFormed(r, ~d) => WellFormed(s, ~d))
  BY <1>1, SpelledForm
<1>4. CASE m.pc = "ok"
  <2>1. r = <<[kind |-> "OK", size |-> "part"]>>
    BY <1>4 DEF Awaits, Answers
  <2>2. Len(r) = 1 /\ AllPart(r)
    BY <2>1 DEF AllPart
  <2>3. Len(s) + Taken(m) <= 1 /\ AllPart(s)
    BY <1>1, <1>3, <2>2 DEF Taken
  <2>4. PingRest(m, s)
    BY <2>3 DEF PingRest
  <2> QED
    BY <1>4, <2>4, RestKinds
<1>5. CASE m.pc = "prepared"
  <2>1. cmd = "prepare"
    BY <1>5 DEF Awaits
  <2>2. AllPart(r) /\ Len(r) <= 2 + 2 * (IF d THEN 0 ELSE 1) + Columns /\ (1 < Len(r) => r[1].kind # "ERR")
    BY <2>1, PreparedForm
  <2>3. ToPrepare(m, ~d) = 2 + 2 * (IF d THEN 0 ELSE 1) + Columns
    BY <1>5 DEF ToPrepare
  <2>4. Taken(m) = 0
    BY DEF Taken
  <2>5. Len(s) + Taken(m) <= ToPrepare(m, ~d)
    BY <1>1, <2>2, <2>3, <2>4
  <2>6. m.got.kind # "ERR"
    BY DEF NoPkt
  <2>7. 1 < Len(s) => s[1].kind # "ERR"
    BY <1>1, <1>2, <2>2
  <2>8. PrepareRest(m, s, ~d)
    BY <1>3, <2>2, <2>5, <2>6, <2>7 DEF PrepareRest
  <2>9. Preparing(m)
    BY <1>5 DEF Preparing
  <2> QED
    BY <2>8, <2>9, RestKinds
<1>6. CASE m.pc = "header"
  <2>1. WellFormed(s, ~d) /\ HeadNext(s)
    <3>1. CASE cmd \in {"query", "execute"}
      <4>1. r \in Replies[d]
        BY <3>1 DEF Answers
      <4>2. WellFormed(r, ~d) /\ HeadNext(r)
        BY <4>1, ProtocolAssumption DEF HeadNext
      <4> QED
        BY <1>3, <4>2
    <3>2. CASE cmd \in {"isolation", "begin", "endTx"}
      <4>1. r \in {<<[kind |-> "OK", size |-> "part"]>>, <<[kind |-> "ERR", size |-> "part"]>>}
        BY <3>2 DEF Answers
      <4>2. Len(r) = 1 /\ r[1].kind \in {"OK", "ERR"} /\ r[1].size = "part"
        BY <4>1
      <4>3. (~d) \in BOOLEAN
        OBVIOUS
      <4>4. Len(s) = 1 /\ s[1].kind \in {"OK", "ERR"} /\ s[1].size = "part"
        BY <1>1, <1>2, <4>2
      <4> QED
        BY <4>3, <4>4, ShortForm
    <3> QED
      BY <1>6, <3>1, <3>2 DEF Awaits
  <2>2. ResultRest(m, s, ~d)
    BY <1>6, <2>1 DEF ResultRest, Unread, ReadPCs
  <2>3. ~Preparing(m) /\ m.pc \notin HandshakeReads /\ m.pc # "ok"
    BY <1>6 DEF Preparing, HandshakeReads
  <2> QED
    BY <2>2, <2>3, RestKinds
<1> QED
  BY <1>4, <1>5, <1>6 DEF Awaits, AuthCmds
-----------------------------------------------------------------------------
(* The frames the server writes                                             *)

\* The reply r to a command of call own whose last frame was number q.
ReplyFrames(r, q, own) ==
    [k \in DOMAIN r |-> [kind |-> r[k].kind, size |-> r[k].size, arg |-> "none",
                         seq |-> (q + k) % SeqMod, own |-> own]]

LEMMA ReplyFramesForm ==
    ASSUME NEW r \in Seq(ReplyFrame), NEW q \in Nat, NEW own
    PROVE  Spells(ReplyFrames(r, q, own), r) /\ Numbered(ReplyFrames(r, q, own), Next8(q), own)
<1> DEFINE g == ReplyFrames(r, q, own)
           l == Len(r)
<1>1. l \in Nat /\ DOMAIN r = 1 .. l
  OBVIOUS
<1>2. g = [k \in 1 .. l |-> [kind |-> r[k].kind, size |-> r[k].size, arg |-> "none",
                             seq |-> (q + k) % SeqMod, own |-> own]]
  BY <1>1 DEF ReplyFrames
<1> HIDE DEF g, l
<1>3. Len(g) = l
  BY <1>1, <1>2
<1>4. \A k \in 1 .. l : /\ g[k].kind = r[k].kind /\ g[k].size = r[k].size
                        /\ g[k].seq = (q + k) % SeqMod /\ g[k].own = own
  BY <1>2
<1>5. Spells(g, r)
  BY <1>3, <1>4 DEF Spells, l
<1>6. 1 <= l => g[1].seq = Next8(q)
  BY <1>1, <1>4 DEF Next8
<1>7. ASSUME NEW k \in 1 .. l, k + 1 <= l PROVE g[k + 1].seq = Next8(g[k].seq)
  <2>1. k + 1 \in 1 .. l /\ q + k \in Nat /\ (q + k) + 1 = q + (k + 1)
    BY <1>1, <1>7
  <2>2. Next8((q + k) % SeqMod) = ((q + k) + 1) % SeqMod
    BY <2>1, NextNumber
  <2>3. g[k + 1].seq = (q + (k + 1)) % SeqMod /\ g[k].seq = (q + k) % SeqMod
    BY <1>4, <2>1
  <2> QED
    BY <2>1, <2>2, <2>3
<1>8. Numbered(g, Next8(q), own)
  BY <1>3, <1>4, <1>6, <1>7 DEF Numbered
<1> QED
  BY <1>5, <1>8 DEF g

\* What is left of the commands received.
LEMMA LaterFrames ==
    ASSUME NEW s \in Seq(ClientFrame), NEW i \in 1 .. Len(s)
    PROVE  LET t == SubSeq(s, i + 1, Len(s))
           IN  Len(t) = Len(s) - i /\ \A k \in 1 .. Len(t) : t[k] = s[i + k]
<1> DEFINE t == SubSeq(s, i + 1, Len(s))
           l == Len(s)
<1>1. l \in Nat /\ i \in Nat /\ 1 <= i /\ i <= l
  OBVIOUS
<1>2. t = [k \in 1 .. l - i |-> s[i + k]]
  BY <1>1
<1>3. Len(t) = l - i
  BY <1>1, <1>2
<1> HIDE DEF t, l
<1>4. \A k \in 1 .. l - i : t[k] = s[i + k]
  BY <1>2
<1> QED
  BY <1>3, <1>4 DEF t, l

LEMMA RunsServes ==
    ASSUME NEW x \in Connection, NEW n \in Socket, NEW p \in Socket, n.out = <<>>,
           NEW i \in 1 .. Len(n.in), n.in[i].last, n.in[i].cmd \notin AuthCmds,
           NEW r \in Answers(n.in[i].cmd, x.deprecateEOF),
           p.in = SubSeq(n.in, i + 1, Len(n.in)),
           p.out = IF x.closed THEN <<>> ELSE ReplyFrames(r, n.in[i].seq, n.in[i].own)
    PROVE  Serves(x, n, p, i)
<1> DEFINE f == n.in[i]
           d == x.deprecateEOF
<1>1. n.in \in Seq(ClientFrame) /\ d \in BOOLEAN /\ p.out \in Seq(ServerFrame)
  BY DEF Socket, Connection
<1>2. f \in ClientFrame
  BY <1>1
<1>3. f.cmd \in Sent \ AuthCmds /\ f.seq \in Nat
  BY <1>2 DEF ClientFrame
<1>4. Len(p.in) = Len(n.in) - i /\ \A k \in 1 .. Len(p.in) : p.in[k] = n.in[i + k]
  BY <1>1, LaterFrames
<1>5. f.last /\ r \in Answers(f.cmd, d) /\ n.out = <<>> /\ i \in 1 .. Len(n.in)
      /\ p.out = IF x.closed THEN <<>> ELSE ReplyFrames(r, f.seq, f.own)
  OBVIOUS
<1> HIDE DEF f, d
<1>6. r \in Seq(ReplyFrame)
  BY <1>1, <1>3, <1>5, AnswersType
<1>7. f.cmd \notin Answered => p.out = <<>>
  <2>1. f.cmd \notin Answered => f.cmd \in {"longData", "stmtClose"}
    BY <1>3 DEF Answered, AuthCmds
  <2>2. f.cmd \in {"longData", "stmtClose"} => r = <<>>
    BY <1>5 DEF Answers
  <2>3. r = <<>> => ReplyFrames(r, f.seq, f.own) = <<>>
    <3>1. ASSUME r = <<>> PROVE ReplyFrames(r, f.seq, f.own) = <<>>
      <4>1. DOMAIN r = {}
        BY <3>1
      <4>2. DOMAIN ReplyFrames(r, f.seq, f.own) = {}
        BY <4>1 DEF ReplyFrames
      <4>3. Spells(ReplyFrames(r, f.seq, f.own), r)
        BY <1>3, <1>6, ReplyFramesForm
      <4> QED
        BY <3>1 DEF ReplyFrames
    <3> QED
      BY <3>1
  <2> QED
    BY <1>5, <2>1, <2>2, <2>3
<1>8. ASSUME ~x.closed PROVE Numbered(p.out, Next8(f.seq), f.own)
  BY <1>3, <1>5, <1>6, <1>8, ReplyFramesForm
<1>9. ASSUME ~x.closed, NEW m \in Caller, Awaits(m.pc, f.cmd), m.got = NoPkt, m.part = NoPkt
      PROVE  Rest(m, p.out, ~d)
  <2>1. p.out = ReplyFrames(r, f.seq, f.own)
    BY <1>5, <1>9
  <2>2. Spells(p.out, r)
    BY <1>3, <1>6, <2>1, ReplyFramesForm
  <2> QED
    BY <1>1, <1>3, <1>5, <1>9, <2>2, AnswerRest
<1>10. Full(f)
  BY <1>5 DEF Full
<1> QED
  BY <1>4, <1>5, <1>7, <1>8, <1>9, <1>10 DEF Serves, f, d
\* The frames g of the answer r to a packet of the handshake of call own.
AuthForm(g, r, q, own) ==
    /\ Numbered(g, q, own) /\ AllPart(g) /\ Len(g) \in 0 .. 2
    /\ r = <<>> => g = <<>>
    /\ Len(g) = 2 => r = <<"FAST", "OK">> /\ g[1].kind = "FAST"

LEMMA OneAuthFrame ==
    ASSUME NEW k, NEW a, NEW q, NEW own, NEW r, r # <<>>
    PROVE  AuthForm(<<Pkt(k, a, q, own)>>, r, q, own)
<1> DEFINE g == <<Pkt(k, a, q, own)>>
<1>1. Len(g) = 1 /\ g[1].seq = q /\ g[1].own = own /\ g[1].size = "part"
  BY DEF Pkt
<1> HIDE DEF g
<1>2. AuthForm(g, r, q, own)
  BY <1>1 DEF AuthForm, Numbered, AllPart
<1> QED
  BY <1>2 DEF g

LEMMA AuthFramesForm ==
    ASSUME NEW r, AuthAnswer(r), NEW q, NEW own
    PROVE  AuthForm(AuthFrames(r, q, own), r, q, own)
<1> DEFINE g == AuthFrames(r, q, own)
<1>1. CASE r = <<>>
  <2>1. g = <<>>
    BY <1>1 DEF AuthFrames
  <2>2. Len(g) = 0
    BY <2>1
  <2> HIDE DEF g
  <2>3. AuthForm(g, r, q, own)
    BY <2>1, <2>2 DEF AuthForm, Numbered, AllPart
  <2> QED
    BY <2>3 DEF g
<1>2. CASE \E p \in Plugin : r = <<"SWITCH", p>>
  <2>1. PICK p \in Plugin : r = <<"SWITCH", p>>
    BY <1>2
  <2>2. r # <<>> /\ g = <<Pkt("SWITCH", p, q, own)>>
    BY <2>1 DEF AuthFrames
  <2> HIDE DEF g
  <2>3. AuthForm(g, r, q, own)
    BY <2>2, OneAuthFrame
  <2> QED
    BY <2>3 DEF g
<1>3. CASE r = <<"FAST", "OK">>
  <2>1. g = <<Pkt("FAST", "none", q, own), Pkt("OK", "none", Next8(q), own)>> /\ r # <<>>
    BY <1>3 DEF AuthFrames
  <2>2. /\ Len(g) = 2 /\ g[1].kind = "FAST" /\ g[1].seq = q /\ g[1].own = own /\ g[1].size = "part"
        /\ g[2].seq = Next8(q) /\ g[2].own = own /\ g[2].size = "part"
    BY <2>1 DEF Pkt
  <2> HIDE DEF g
  <2>3. \A i \in 1 .. 2 : i + 1 <= 2 => i = 1
    OBVIOUS
  <2>4. Numbered(g, q, own)
    BY <2>2, <2>3 DEF Numbered
  <2>5. AllPart(g)
    BY <2>2 DEF AllPart
  <2>6. AuthForm(g, r, q, own)
    BY <1>3, <2>1, <2>2, <2>4, <2>5 DEF AuthForm
  <2> QED
    BY <2>6 DEF g
<1>4. CASE r \in {<<"OK">>, <<"ERR">>, <<"KEY">>, <<"FULL">>}
  <2>1. PICK k \in {"OK", "ERR", "KEY", "FULL"} : r = <<k>>
    BY <1>4
  <2>2. r # <<>> /\ r[1] = k /\ r # <<"FAST", "OK">>
    BY <2>1
  <2>3. g = <<Pkt(k, "none", q, own)>>
    BY <2>2, Zenon DEF AuthFrames
  <2> HIDE DEF g
  <2>4. AuthForm(g, r, q, own)
    BY <2>2, <2>3, OneAuthFrame
  <2> QED
    BY <2>4 DEF g
<1> QED
  BY <1>1, <1>2, <1>3, <1>4 DEF AuthAnswer

LEMMA AuthRest ==
    ASSUME NEW cmd \in AuthCmds, NEW a, NEW secure, NEW r \in AuthReplies(cmd, a, secure),
           NEW q, NEW own, NEW m, Awaits(m.pc, cmd), m.got = NoPkt, m.part = NoPkt, NEW eof
    PROVE  Rest(m, AuthFrames(r, q, own), eof)
<1> DEFINE g == AuthFrames(r, q, own)
<1>1. /\ AllPart(g) /\ Len(g) \in 0 .. 2
      /\ Len(g) = 2 => r = <<"FAST", "OK">> /\ g[1].kind = "FAST"
  BY AuthReplyShape, AuthFramesForm DEF AuthForm
<1>2. m.pc \in {"authResult", "authOK", "authKey"}
  BY DEF Awaits, AuthCmds
<1>3. m.pc # "authResult" => r # <<"FAST", "OK">>
  <2>1. m.pc # "authResult" => cmd \in {"password", "encrypted", "keyRequest"}
    BY <1>2 DEF Awaits
  <2>2. cmd \in {"password", "encrypted", "keyRequest"} => r \in {<<"OK">>, <<"ERR">>, <<"KEY">>}
    BY DEF AuthReplies
  <2> QED
    BY <2>1, <2>2
<1> HIDE DEF g
<1>4. Len(g) <= 2 /\ (1 < Len(g) => Len(g) = 2)
  <2>1. \A l \in 0 .. 2 : l <= 2 /\ (1 < l => l = 2)
    OBVIOUS
  <2> QED
    BY <1>1, <2>1
<1>5. m.pc # "authResult" => Len(g) <= 1
  <2>1. \A l \in 0 .. 2 : l # 2 => l <= 1
    OBVIOUS
  <2> QED
    BY <1>1, <1>3, <2>1
<1>6. HandshakeRest(m, g)
  BY <1>1, <1>4, <1>5 DEF HandshakeRest
<1>7. m.pc \in HandshakeReads
  BY <1>2 DEF HandshakeReads
<1> QED
  BY <1>6, <1>7, RestKinds DEF g

LEMMA AuthServes ==
    ASSUME NEW x \in Connection, NEW n \in Socket, NEW p \in Socket, n.out = <<>>, n.in # <<>>,
           LET f == Head(n.in)
           IN  /\ f.cmd \in AuthCmds
               /\ \E r \in AuthReplies(f.cmd, f.arg, x.tls) :
                    p.out = IF x.closed THEN <<>> ELSE AuthFrames(r, Next8(f.seq), f.own),
           p.in = Tail(n.in)
    PROVE  Serves(x, n, p, 1)
<1> DEFINE f == n.in[1]
<1>1. n.in \in Seq(ClientFrame) /\ Len(n.in) \in Nat /\ 1 <= Len(n.in) /\ Head(n.in) = f
      /\ 1 \in 1 .. Len(n.in)
  BY DEF Socket
<1>2. p.in = SubSeq(n.in, 1 + 1, Len(n.in))
  <2>1. \A s \in Seq(ClientFrame) : s # <<>> => Tail(s) = SubSeq(s, 1 + 1, Len(s))
    OBVIOUS
  <2> QED
    BY <1>1, <2>1
<1>3. Len(p.in) = Len(n.in) - 1 /\ \A k \in 1 .. Len(p.in) : p.in[k] = n.in[1 + k]
  BY <1>1, <1>2, LaterFrames
<1>4. f.cmd \in AuthCmds
  BY <1>1
<1>5. PICK r \in AuthReplies(f.cmd, f.arg, x.tls) :
          p.out = IF x.closed THEN <<>> ELSE AuthFrames(r, Next8(f.seq), f.own)
  BY <1>1
<1> HIDE DEF f
<1>6. AuthAnswer(r)
  BY <1>4, <1>5, AuthReplyShape
<1>7. f.cmd \notin Answered => p.out = <<>>
  <2>1. f.cmd \notin Answered => f.cmd = "sslRequest"
    BY <1>4 DEF Answered, Sent, AuthCmds
  <2>2. f.cmd = "sslRequest" => r = <<>>
    BY <1>5 DEF AuthReplies
  <2> QED
    BY <1>5, <1>6, <2>1, <2>2, AuthFramesForm DEF AuthForm
<1>8. ASSUME ~x.closed PROVE Numbered(p.out, Next8(f.seq), f.own)
  BY <1>5, <1>6, <1>8, AuthFramesForm DEF AuthForm
<1>9. ASSUME ~x.closed, NEW m \in Caller, Awaits(m.pc, f.cmd), m.got = NoPkt, m.part = NoPkt
      PROVE  Rest(m, p.out, ~x.deprecateEOF)
  BY <1>4, <1>5, <1>9, AuthRest
<1>10. Full(f)
  BY <1>4 DEF Full
<1>11. x.closed => p.out = <<>>
  BY <1>5
<1> QED
  BY <1>1, <1>3, <1>7, <1>8, <1>9, <1>10, <1>11 DEF Serves, f

LEMMA ServerAuthenticatesAccounted ==
    ASSUME ReplyInv, TypeOK', NEW c \in Conn, ServerAuthenticates(c)
    PROVE  Manner(me') /\ \A d \in Conn : Accounted(d)'
<1> DEFINE n == net[c]
           s == Tail(n.in)
           f == Head(n.in)
<1>1. /\ TypeOK /\ n \in Socket /\ net'[c] \in Socket /\ conn[c] \in Connection
      /\ n.in # <<>> /\ n.out = <<>> /\ f.cmd \in AuthCmds /\ UNCHANGED <<conn, me>>
  BY ReplyFacts DEF TypeOK, ServerAuthenticates
<1>2. PICK r \in AuthReplies(f.cmd, f.arg, conn[c].tls) :
           net' = [net EXCEPT ![c].in = Tail(@),
                     ![c].out = IF conn[c].closed THEN <<>>
                                ELSE AuthFrames(r, Next8(f.seq), f.own),
                     ![c].accepted = @ \/ (r # <<>> /\ r[Len(r)] = "OK")]
  BY Zenon DEF ServerAuthenticates
<1> DEFINE o == IF conn[c].closed THEN <<>> ELSE AuthFrames(r, Next8(f.seq), f.own)
           a == n.accepted \/ (r # <<>> /\ r[Len(r)] = "OK")
           x == [n EXCEPT !.in = s, !.out = o, !.accepted = a]
<1>3. net' = [net EXCEPT ![c] = x]
  BY <1>1, <1>2 DEF TypeOK
<1> HIDE DEF n, s, o, a
<1>4. x.in = s /\ x.out = o
  BY <1>1 DEF Socket
<1> HIDE DEF x
<1>5. net'[c] = x /\ Elsewhere(c)
  BY <1>1, <1>3 DEF TypeOK, Elsewhere
<1>6. Serves(conn[c], n, net'[c], 1)
  BY <1>1, <1>2, <1>4, <1>5, AuthServes DEF s, o
<1> QED
  BY <1>1, <1>5, <1>6, ServesAccounted DEF n

LEMMA ServerRunsAccounted ==
    ASSUME ReplyInv, TypeOK', NEW c \in Conn, ServerRuns(c)
    PROVE  Manner(me') /\ \A d \in Conn : Accounted(d)'
<1> DEFINE n == net[c]
           x == conn[c]
<1>1. /\ TypeOK /\ n \in Socket /\ net'[c] \in Socket /\ x \in Connection
      /\ n.out = <<>> /\ UNCHANGED <<conn, me>>
  BY ReplyFacts DEF TypeOK, ServerRuns
<1>2. PICK i \in DOMAIN n.in :
         /\ n.in[i].last /\ n.in[i].cmd \notin AuthCmds
         /\ \E r \in Answers(n.in[i].cmd, x.deprecateEOF) :
              net' = [net EXCEPT ![c].in = SubSeq(@, i + 1, Len(@)),
                      ![c].out = IF x.closed THEN <<>>
                                 ELSE ReplyFrames(r, n.in[i].seq, n.in[i].own)]
  BY DEF ServerRuns, ReplyFrames
<1>8. PICK r \in Answers(n.in[i].cmd, x.deprecateEOF) :
         net' = [net EXCEPT ![c].in = SubSeq(@, i + 1, Len(@)),
                      ![c].out = IF x.closed THEN <<>>
                                 ELSE ReplyFrames(r, n.in[i].seq, n.in[i].own)]
  BY <1>2
<1> DEFINE s == SubSeq(n.in, i + 1, Len(n.in))
           o == IF x.closed THEN <<>> ELSE ReplyFrames(r, n.in[i].seq, n.in[i].own)
           p == [n EXCEPT !.in = s, !.out = o]
<1>3. net' = [net EXCEPT ![c] = p]
  BY <1>1, <1>8 DEF TypeOK
<1>4. i \in 1 .. Len(n.in)
  BY <1>1, <1>2, SMTT(30) DEF Socket
<1> HIDE DEF n, x, s, o
<1>5. p.in = s /\ p.out = o
  BY <1>1 DEF Socket
<1> HIDE DEF p
<1>6. net'[c] = p /\ Elsewhere(c)
  BY <1>1, <1>3 DEF TypeOK, Elsewhere
<1>7. Serves(x, n, net'[c], i)
  BY <1>1, <1>2, <1>4, <1>5, <1>6, <1>8, RunsServes DEF s, o
<1> QED
  BY <1>1, <1>6, <1>7, ServesAccounted DEF n, x
-----------------------------------------------------------------------------
(* Every step                                                               *)

LEMMA CallerStepAccounted ==
    ASSUME ReplyInv, TypeOK', CallerStep
    PROVE  Manner(me') /\ \A d \in Conn : Accounted(d)'
<1>1. CASE WireStep
  BY <1>1, ReadFailsAccounted, ReadFrameAccounted, WriteFrameAccounted, FinishAccounted,
     WriteFailsAccounted DEF WireStep
<1>2. CASE ConnectStep
  BY <1>2, DialAccounted, ReadHandshakePacketAccounted, SwitchToTLSAccounted,
     HandleAuthResultAccounted, ReadPublicKeyAccounted, ReadAuthOKAccounted DEF ConnectStep
<1>3. CASE TakeConn \/ ConnectFailed \/ ResetSession \/ Release
  BY <1>3, TakeConnAccounted, ConnectFailedAccounted, ResetSessionAccounted, ReleaseAccounted
<1>4. CASE Watch \/ UseStmt
  BY <1>4, WatchAccounted, UseStmtAccounted
<1>5. CASE SessionAction
  BY <1>5, SessionActionAccounted
<1> QED
  BY <1>1, <1>2, <1>3, <1>4, <1>5 DEF CallerStep, SessionAction

LEMMA ReplyStays == ReplyInv /\ [Next]_vars => ReplyInv'
<1> SUFFICES ASSUME ReplyInv, [Next]_vars PROVE ReplyInv'
  OBVIOUS
<1>1. SessionInv'
  BY SessionStays DEF ReplyInv
<1>2. TypeOK'
  BY <1>1 DEF SessionInv, OnceInv, OwnInv
<1>3. Manner(me') /\ \A d \in Conn : Accounted(d)'
  <2>1. CASE CallerStep
    BY <1>2, <2>1, CallerStepAccounted
  <2>2. CASE Choice
    <3>1. CASE StartCall \/ StopScanning
      BY <3>1, StartCallAccounted, StopScanningAccounted
    <3>2. CASE \E c \in Conn : IdleClose(c)
      BY <3>2, IdleCloseAccounted
    <3> QED
      BY <2>2, <3>1, <3>2 DEF Choice
  <2>3. CASE Failure
    <3>1. CASE DialFails
      BY <3>1, DialFailsAccounted
    <3>2. CASE \E c \in Conn : ServerGone(c)
      BY <1>2, <3>2, ServerGoneAccounted
    <3> QED
      BY <2>3, <3>1, <3>2 DEF Failure
  <2>4. CASE Fill
    BY <1>2, <2>4, FillAccounted
  <2>5. CASE \E c \in Conn : ServerStep(c)
    <3>1. PICK c \in Conn : ServerAuthenticates(c) \/ ServerRuns(c)
      BY <2>5 DEF ServerStep
    <3> QED
      BY <1>2, <3>1, ServerAuthenticatesAccounted, ServerRunsAccounted
  <2>6. CASE \E c \in Conn : WatcherStep(c)
    BY <1>2, <2>6, WatcherAccounted
  <2>7. CASE Deadline \/ UNCHANGED vars
    <3>1. UNCHANGED <<conn, net, me>>
      BY <2>7 DEF Deadline, ContextDone, vars, hsVars, wireVars
    <3> QED
      BY <3>1, UntouchedAccounted
  <2> QED
    BY <2>1, <2>2, <2>3, <2>4, <2>5, <2>6, <2>7 DEF Next
<1> QED
  BY <1>1, <1>3 DEF ReplyInv

LEMMA InitReply == Init => ReplyInv
<1> SUFFICES ASSUME Init PROVE ReplyInv
  OBVIOUS
<1>1. SessionInv
  BY InitSession
<1>2. Manner(me)
  BY DEF Init, Manner, NoCaller, ReadPCs, NoPkt
<1>3. \A c \in Conn : Accounted(c)
  BY DEF Init, Accounted, NewConn
<1> QED
  BY <1>1, <1>2, <1>3 DEF ReplyInv

LEMMA RepliesAccounted == Spec => []ReplyInv
BY InitReply, ReplyStays, PTL DEF Spec

\* readPacket, the commands and database/sql's pool (packets.go, connection.go):
\* a call never takes the answer to an earlier call for its own, although a
\* connection may go back to the pool with result sets nobody has read.
THEOREM OwnAnswers == Spec => []OwnReply
<1>1. ReplyInv => OwnReply
  <2> SUFFICES ASSUME ReplyInv, me.got # NoPkt, ~IsErr(me.got), me.got.kind # "ERR",
                      ~conn[me.c].long
               PROVE  me.got.own = me.n
    BY DEF OwnReply
  <2>1. CallerInv /\ Manner(me)
    BY DEF ReplyInv, SessionInv, OnceInv, OwnInv
  <2>2. me.pc \in ReadPCs
    BY <2>1 DEF Manner, CallerInv
  <2>3. me.c \in Conn /\ conn[me.c].st \in {"dialled", "ready"}
    BY <2>1, <2>2 DEF CallerInv, ReadPCs, HandshakePCs, SessionPCs, BetweenPCs, ReplyPCs, St
  <2>4. Following(me, conn[me.c], net[me.c])
    BY <2>3 DEF ReplyInv, Accounted
  <2>5. CASE Receiving(me, conn[me.c], net[me.c])
    BY <2>5 DEF Receiving
  <2>6. CASE Failing(me, conn[me.c])
    BY <2>6 DEF Failing
  <2> QED
    BY <2>2, <2>4, <2>5, <2>6, GotHearing
<1> QED
  BY <1>1, RepliesAccounted, PTL
=============================================================================
