-------------------------------- MODULE Smb --------------------------------
(***************************************************************************)
(* smb.c under device-smb.c: the disc is a file on a file server, or       *)
(* several.  One thread logs in, opens the files and reads them over one   *)
(* TCP connection: a request, then the reply, which may arrive in pieces.  *)
(* There is no timeout and no reconnection.                                *)
(*                                                                         *)
(* The stream is counted in cells: the header of a message is one and      *)
(* arrives whole, a CD sector of data is one.  The content of sector s of  *)
(* the disc is s.                                                          *)
(***************************************************************************)
EXTENDS Parts

CONSTANTS
  MAX_SMB_SECTORS, \* sectors of one read request
  SmbReads,        \* calls of DeviceReadSectors: [lsn, n]
  SmbMem,          \* sectors of the caller's memory
  KeepAlives,      \* bound: keep-alives the server sends
  MaxSmbFaults     \* bound: errors the server reports, and loss of the connection

ASSUME SmbAssumption ==
  /\ MAX_SMB_SECTORS \in Nat \ {0} /\ SmbMem \in Nat
  /\ KeepAlives \in Nat /\ MaxSmbFaults \in Nat
  /\ \A r \in SmbReads : r.lsn \in Nat /\ r.n \in 1 .. SmbMem

VARIABLES
  server,          \* its security: "share", "user", or "lm" (user level, LM hashes only)
  conn,            \* the connection: "none", "up", "lost"
  srv,             \* the request the server has not answered, or NoRequest
  net,             \* cells the client has not received
  SMB_buf,         \* what the buffer holds: the client's own request, or a reply's header
  UID, TID, FIDs, RR,   \* RR: UID and TID of smb_Read_Request
  sat, smy, scall, \* the thread: where it is, locals, arguments of DeviceReadSectors
  smem,
  alive, sfaults,  \* keep-alives and faults so far
  spoilt             \* history: what a fault has spoilt, "none", "call" or "all"

smbvars == <<server, conn, srv, net, SMB_buf, UID, TID, FIDs, RR, sat, smy, scall, smem, alive, spoilt,
             sfaults>>
ids == <<UID, TID, FIDs, RR>>

Nothing == -1
NoRequest == [kind |-> "none"]
NoRead == [lsn |-> 0, n |-> 0]
KeepAlive == [t |-> "keepalive", status |-> "OK", id |-> 0, size |-> 1, v |-> Nothing]
Data(v) == [t |-> "data", v |-> v]
Own == [from |-> "own", status |-> "OK", id |-> 0]
Start == [stage |-> "negotiate", auth |-> "NTLM", i |-> 1, reads |-> <<>>, off |-> 0, left |-> 0, part |-> 1,
          p |-> 0, got |-> 0, want |-> 0]

SmbInit ==
  /\ server \in {"share", "user", "lm"}
  /\ conn = "none" /\ srv = NoRequest /\ net = <<>>
  /\ SMB_buf = Own
  /\ UID = 0 /\ TID = 0 /\ FIDs = [i \in 1 .. NumParts |-> 0] /\ RR = [uid |-> 0, tid |-> 0]
  /\ sat = "connect" /\ smy = Start /\ scall = NoRead
  /\ smem = [s \in 0 .. SmbMem - 1 |-> Nothing]
  /\ alive = 0 /\ spoilt = "none" /\ sfaults = 0

Login == sat \in {"connect", "send", "reply", "fragment", "check"}
\* A fault while logging in, or the loss of the connection, spoils every read,
\* an error in answer to a read that read.
SmbFault(for) ==
  sfaults < MaxSmbFaults /\ sfaults' = sfaults + 1 /\ spoilt' = IF spoilt = "all" THEN "all" ELSE for

-----------------------------------------------------------------------------
(***************************************************************************)
(* The server and the network (external).                                  *)
(***************************************************************************)
Reply(status, id, data) ==
  <<[t |-> "hdr", status |-> status, id |-> id, size |-> 1 + Len(data)]>> \o data

\* What a read finds: to the end of the part's file.
FileData(fid, off, n) ==
  LET k == IF off >= PartSectors THEN 0 ELSE IF off + n > PartSectors THEN PartSectors - off ELSE n
  IN  [j \in 1 .. k |-> Data((fid - 1) * PartSectors + off + j - 1)]

Answer(q) ==
  CASE q.kind = "negotiate" -> Reply("OK", 0, <<Data(0)>>)
    [] q.kind = "session" ->
         IF server = "lm" /\ q.auth = "NTLM" THEN Reply("LOGON_FAILURE", 0, <<>>) ELSE Reply("OK", 1, <<Data(0)>>)
    [] q.kind = "tree" -> IF q.uid = 1 THEN Reply("OK", 1, <<Data(0)>>) ELSE Reply("ERROR", 0, <<>>)
    [] q.kind = "open" ->
         IF q.uid = 1 /\ q.tid = 1 THEN Reply("OK", q.i, <<Data(0)>>) ELSE Reply("ERROR", 0, <<>>)
    [] q.kind = "read" ->
         IF q.uid = 1 /\ q.tid = 1 /\ q.fid > 0 THEN Reply("OK", 0, FileData(q.fid, q.off, q.n))
         ELSE Reply("ERROR", 0, <<>>)

ServerAnswers ==
  /\ srv # NoRequest /\ srv' = NoRequest
  /\ \/ net' = net \o Answer(srv) /\ UNCHANGED <<spoilt, sfaults>>
     \/ net' = net \o Reply("ERROR", 0, <<>>) /\ SmbFault(IF Login THEN "all" ELSE "call")
  /\ UNCHANGED <<server, conn, SMB_buf, ids, sat, smy, scall, smem, alive>>
\* A NetBIOS keep-alive, in a segment of its own.
ServerKeepsAlive ==
  /\ conn = "up" /\ alive < KeepAlives /\ alive' = alive + 1
  /\ net' = Append(net, KeepAlive)
  /\ UNCHANGED <<server, conn, srv, SMB_buf, ids, sat, smy, scall, smem, spoilt, sfaults>>
\* The connection breaks; part of what was on its way still arrives.
ConnectionLost ==
  /\ conn = "up" /\ conn' = "lost"
  /\ SmbFault("all")
  /\ srv' = NoRequest
  /\ \E k \in 0 .. Len(net) : net' = SubSeq(net, 1, k)
  /\ UNCHANGED <<server, SMB_buf, ids, sat, smy, scall, smem, alive>>

\* plwip_send of a request and its outcome.
Sent(q) == srv' = IF conn = "up" THEN q ELSE NoRequest
\* plwip_recvfrom takes what has arrived of one segment: k cells.
Arrived(k) == k \in 1 .. Len(net) /\ (k = 1 \/ \A j \in 1 .. k : net[j] # KeepAlive)
Received(k) == Arrived(k) /\ net' = SubSeq(net, k + 1, Len(net))
\* It fails.
NothingComes == conn = "lost" /\ net = <<>>

-----------------------------------------------------------------------------
(***************************************************************************)
(* Log in, as smb_NegotiateProt and DeviceFSInit do: smb_NegotiateProtocol,*)
(* smb_SessionSetupAndX, smb_TreeConnectAndX, smb_OpenAndX of each part.   *)
(***************************************************************************)
OpenTCPSession ==
  /\ sat = "connect" /\ sat' = "send"
  /\ conn' = "up"
  /\ UNCHANGED <<server, srv, net, SMB_buf, ids, smy, scall, smem, alive, spoilt, sfaults>>

SessionSend ==
  /\ sat = "send" /\ sat' = IF conn = "up" THEN "reply" ELSE "check"
  /\ SMB_buf' = Own
  /\ Sent([kind |-> smy.stage, auth |-> smy.auth, uid |-> UID, tid |-> TID, i |-> smy.i])
  /\ UNCHANGED <<server, conn, net, ids, smy, scall, smem, alive, spoilt, sfaults>>

\* GetSMBServerReply: a keep-alive is dropped; a reply is received to its
\* end.  Its result is not looked at: what is in SMB_buf is checked.
ReplyHead ==
  /\ sat = "reply"
  /\ \/ \E k \in 1 .. Len(net) :
          /\ Received(k)
          /\ IF net[1] = KeepAlive THEN UNCHANGED <<sat, smy, SMB_buf>>
             ELSE /\ sat' = "fragment"
                  /\ smy' = [smy EXCEPT !.got = k, !.want = net[1].size]
                  /\ SMB_buf' = [from |-> "reply", status |-> net[1].status, id |-> net[1].id]
     \/ NothingComes /\ sat' = "check" /\ UNCHANGED <<net, smy, SMB_buf>>
  /\ UNCHANGED <<server, conn, srv, ids, scall, smem, alive, spoilt, sfaults>>
ReplyFragment ==
  /\ sat = "fragment"
  /\ \/ /\ smy.got < smy.want
        /\ \E k \in 1 .. Len(net) : Received(k) /\ smy' = [smy EXCEPT !.got = @ + k]
        /\ UNCHANGED sat
     \/ smy.got < smy.want /\ NothingComes /\ sat' = "check" /\ UNCHANGED <<net, smy>>
     \/ smy.got >= smy.want /\ sat' = "check" /\ UNCHANGED <<net, smy>>
  /\ UNCHANGED <<server, conn, srv, SMB_buf, ids, scall, smem, alive, spoilt, sfaults>>

To(stage, auth, i) == sat' = "send" /\ smy' = [Start EXCEPT !.stage = stage, !.auth = auth, !.i = i]
Opened == sat' = "idle" /\ smy' = Start

\* Negotiation is tried until it succeeds (a request has not the word count
\* of a reply); a user-level session is tried with NTLM, then LM hashes;
\* the results of the functions are not looked at.
NegotiateChecked ==
  /\ smy.stage = "negotiate"
  /\ IF SMB_buf.from = "reply" /\ SMB_buf.status = "OK" THEN To("session", "NTLM", 1)
     ELSE To("negotiate", "NTLM", 1)
  /\ UNCHANGED ids
\* Mutant: a refused session is given up.
SetupOnce ==
  /\ smy.stage = "session"
  /\ To("tree", "NTLM", 1)
  /\ UID' = IF SMB_buf.status = "OK" THEN SMB_buf.id ELSE UID
  /\ UNCHANGED <<TID, FIDs, RR>>
smb_SessionSetupAndX ==
  /\ smy.stage = "session"
  /\ IF server # "share" /\ SMB_buf.status = "LOGON_FAILURE" /\ smy.auth = "NTLM"
       THEN To("session", "LM", 1) /\ UNCHANGED UID
       ELSE To("tree", "NTLM", 1) /\ UID' = IF SMB_buf.status = "OK" THEN SMB_buf.id ELSE UID
  /\ UNCHANGED <<TID, FIDs, RR>>
smb_TreeConnectAndX ==
  /\ smy.stage = "tree"
  /\ To("open", "NTLM", 1)
  /\ TID' = IF SMB_buf.status = "OK" THEN SMB_buf.id ELSE TID
  /\ UNCHANGED <<UID, FIDs, RR>>
smb_OpenAndX ==
  /\ smy.stage = "open"
  /\ IF smy.i < NumParts THEN To("open", "NTLM", smy.i + 1) ELSE Opened
  /\ IF SMB_buf.status = "OK"
       THEN FIDs' = [FIDs EXCEPT ![smy.i] = SMB_buf.id] /\ RR' = [uid |-> UID, tid |-> TID]
       ELSE UNCHANGED <<FIDs, RR>>
  /\ UNCHANGED <<UID, TID>>
SessionCheck ==
  /\ sat = "check"
  /\ NegotiateChecked \/ smb_SessionSetupAndX \/ smb_TreeConnectAndX \/ smb_OpenAndX
  /\ UNCHANGED <<server, conn, srv, net, SMB_buf, scall, smem, alive, spoilt, sfaults>>

-----------------------------------------------------------------------------
(***************************************************************************)
(* DeviceReadSectors, smb_ReadCD, smb_ReadFile.                            *)
(***************************************************************************)
SmbReadSectors == \E r \in SmbReads :
  /\ sat = "idle" /\ sat' = "part"
  /\ scall' = r
  /\ smy' = [Start EXCEPT !.reads = PartReads(r.lsn, r.n)]
  /\ spoilt' = IF spoilt = "call" THEN "none" ELSE spoilt
  /\ UNCHANGED <<server, conn, srv, net, SMB_buf, ids, smem, alive, sfaults>>

\* smb_ReadCD of the next part, or the return.
NextPart ==
  /\ sat = "part" /\ smy.reads # <<>>
  /\ sat' = "chunk"
  /\ LET r == Head(smy.reads)
     IN  smy' = [smy EXCEPT !.reads = Tail(@), !.part = r.part, !.off = r.lsn, !.left = r.n, !.p = r.p]
  /\ UNCHANGED <<server, conn, srv, net, SMB_buf, ids, scall, smem, alive, spoilt, sfaults>>
SmbReturn ==
  /\ sat = "part" /\ smy.reads = <<>>
  /\ sat' = "return"
  /\ UNCHANGED <<server, conn, srv, net, SMB_buf, ids, smy, scall, smem, alive, spoilt, sfaults>>
SmbReturned ==
  /\ sat = "return" /\ sat' = "idle"
  /\ smy' = Start /\ scall' = NoRead
  /\ smem' = [s \in DOMAIN smem |-> Nothing]
  /\ UNCHANGED <<server, conn, srv, net, SMB_buf, ids, alive, spoilt, sfaults>>

ChunkSectors == IF smy.left > MAX_SMB_SECTORS THEN MAX_SMB_SECTORS ELSE smy.left
ReadSend ==
  /\ sat = "chunk"
  /\ IF smy.left = 0 THEN sat' = "part" /\ UNCHANGED srv
     ELSE /\ sat' = "head"
          /\ Sent([kind |-> "read", fid |-> FIDs[smy.part], uid |-> RR.uid, tid |-> RR.tid, off |-> smy.off,
                   n |-> ChunkSectors])
  /\ UNCHANGED <<server, conn, net, SMB_buf, ids, smy, scall, smem, alive, spoilt, sfaults>>

\* Cells of data from position p of the caller's memory on.
Copied(p, cells) ==
  smem' = [s \in DOMAIN smem |-> IF s - p + 1 \in DOMAIN cells THEN cells[s - p + 1].v ELSE smem[s]]

\* Mutant: a keep-alive is taken for the reply.
HeadKeepAlive ==
  /\ sat = "head"
  /\ \/ \E k \in 1 .. 1 + ChunkSectors :
          /\ Received(k)
          /\ sat' = "rest"
          /\ smy' = [smy EXCEPT !.got = k, !.want = net[1].size]
          /\ SMB_buf' = [from |-> "reply", status |-> net[1].status, id |-> net[1].id]
          /\ Copied(smy.p, SubSeq(net, 2, k))
     \/ NothingComes /\ sat' = "spin" /\ UNCHANGED <<net, smy, smem, SMB_buf>>
  /\ UNCHANGED <<server, conn, srv, ids, scall, alive, spoilt, sfaults>>
\* The header and the data that came with it; the status is not looked at.
\* When nothing comes, the loop below never ends.
ReadHead ==
  /\ sat = "head"
  /\ \/ \E k \in 1 .. 1 + ChunkSectors :
          /\ Received(k)
          /\ IF net[1] = KeepAlive THEN UNCHANGED <<sat, smy, smem, SMB_buf>>
             ELSE /\ sat' = "rest"
                  /\ smy' = [smy EXCEPT !.got = k, !.want = net[1].size]
                  /\ SMB_buf' = [from |-> "reply", status |-> net[1].status, id |-> net[1].id]
                  /\ Copied(smy.p, SubSeq(net, 2, k))
     \/ NothingComes /\ sat' = "spin" /\ UNCHANGED <<net, smy, smem, SMB_buf>>
  /\ UNCHANGED <<server, conn, srv, ids, scall, alive, spoilt, sfaults>>

\* The fragments; then smb_ReadCD goes on behind the sectors it asked for.
ReadRest ==
  /\ sat = "rest"
  /\ \/ /\ smy.got < smy.want
        /\ \E k \in 1 .. smy.want - smy.got :
             Received(k) /\ Copied(smy.p + smy.got - 1, SubSeq(net, 1, k)) /\ smy' = [smy EXCEPT !.got = @ + k]
        /\ UNCHANGED sat
     \/ smy.got < smy.want /\ NothingComes /\ sat' = "spin" /\ UNCHANGED <<net, smy, smem>>
     \/ /\ smy.got >= smy.want /\ sat' = "chunk"
        /\ smy' = [smy EXCEPT !.p = @ + ChunkSectors, !.off = @ + ChunkSectors, !.left = @ - ChunkSectors]
        /\ UNCHANGED <<net, smem>>
  /\ UNCHANGED <<server, conn, srv, SMB_buf, ids, scall, alive, spoilt, sfaults>>

-----------------------------------------------------------------------------
SmbThread ==
  \/ OpenTCPSession \/ SessionSend \/ ReplyHead \/ ReplyFragment \/ SessionCheck
  \/ NextPart \/ SmbReturn \/ SmbReturned \/ ReadSend \/ ReadHead \/ ReadRest
SmbServer == ServerAnswers \/ ServerKeepsAlive \/ ConnectionLost

SmbNext == SmbReadSectors \/ SmbThread \/ SmbServer

-----------------------------------------------------------------------------
(***************************************************************************)
(* Properties.                                                             *)
(***************************************************************************)

\* A call returns the disc's sectors, all of them or, when it reads across the
\* border of a part, those before it (device-smb.c asks the next part's file
\* for sectors it has not), whatever pieces the replies arrive in and whatever
\* keep-alives come between, unless the server reports an error or the
\* connection is lost; it never writes outside of what was asked for.
SmbDelivers ==
  /\ sat = "return" /\ spoilt = "none" =>
       \A i \in 0 .. BeforeBorder(scall.lsn, scall.n) - 1 : smem[i] = scall.lsn + i
  /\ scall # NoRead => \A s \in scall.n .. SmbMem - 1 : smem[s] = Nothing

\* Requests and replies stay in step: when a request is sent, and between
\* calls, no request waits for its answer and nothing of an earlier reply is
\* left that would be taken for the next one's, after errors too.
InStep ==
  sat \in {"send", "chunk", "part", "idle", "return"} =>
    srv = NoRequest /\ \A j \in DOMAIN net : net[j] = KeepAlive

\* For DeviceReturns.  There is no timeout that would end a wait for
\* something that does not come.
SmbInCall == scall # NoRead
SmbStuck == conn = "lost"
=============================================================================
