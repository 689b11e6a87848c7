-------------------------------- MODULE Tftp --------------------------------
(***************************************************************************)
(* One transfer between the TFTP client and the TFTP server of the         *)
(* network components, over UDP: the client pulls a file from the server   *)
(* or pushes one to it, block by block, each side repeating what it sent   *)
(* last when nothing comes for five seconds.  Every request that reaches   *)
(* the server opens a session with a socket of its own; the client answers *)
(* whoever sent it the packet it received last.                            *)
(*                                                                         *)
(* The file is a sequence of chunks named by their place: 1..Full fill a   *)
(* block, Full + 1 is what is left, which may be no byte at all.           *)
(***************************************************************************)
EXTENDS Integers, Sequences, FiniteSets

CONSTANTS
    Full,       \* blocks of the file that are full
    Retries,    \* TFTP_MAX_RETRY
    Slots,      \* TFTP_SERVER_CONNECT_MAX
    MaxDups,    \* bound: packets the network delivers twice
    DiskFails,  \* whether writing a file may fail
    Absent      \* whether the file to be sent may not be there

ASSUME TftpAssumption ==
    /\ Full \in Nat /\ Full < 65535
    /\ Retries \in Nat \ {0} /\ Slots \in Nat \ {0}
    /\ MaxDups \in Nat
    /\ DiskFails \in BOOLEAN /\ Absent \in BOOLEAN

VARIABLES
    net,            \* packets sent: one that is never received is lost
    dups,           \* packets delivered twice so far
    op,             \* the command: "pull" or "push"
    present,        \* whether the file to be sent is there
    cpc, tries,     \* the client: its place and max_retry
    cblock, sender, \* its xfer: block, and where its packets go
    size,           \* file_size, in chunks
    got,            \* what it has written to its file
    err,            \* how the command ended
    up, sessions, opened, \* the server, its sockets, how many it has opened
    stored,         \* the file pushed to the server
    resent          \* history: it has sent a block of a file again

network == <<net, dups>>
command == <<op, present>>
client  == <<cpc, tries, cblock, sender, size, got, err>>
server  == <<up, sessions, opened, stored, resent>>
vars    == <<network, command, client, server>>

Sids   == 1..Retries + MaxDups \* no more requests than that arrive
Client == 0
Server == -1

Empty  == 0                    \* a block without data
Chunks == 1..Full + 1
Short(chunk) == chunk \notin 1..Full

Wrap == 65536                  \* block is a uint16_t
Succ(block) == (block + 1) % Wrap

Packet(kind, from, to, block, chunk) ==
    [kind |-> kind, from |-> from, to |-> to, block |-> block, chunk |-> chunk]
Request == Packet("req", Client, Server, 0, Empty)
Data(from, to, block, chunk) == Packet("data", from, to, block, chunk)
Ack(from, to, block) == Packet("ack", from, to, block, Empty)
Error(from, to) == Packet("err", from, to, 0, Empty)

NoSession == [live |-> FALSE, block |-> 0, retry |-> 0, off |-> 0, last |-> Empty]
Live == {s \in Sids : sessions[s].live}
Closed(s) == [sessions EXCEPT ![s] = NoSession]

Init ==
    /\ net = {Request} /\ dups = 0
    /\ op \in {"pull", "push"} /\ present \in {TRUE, ~Absent}
    /\ cpc = "await" /\ tries = Retries
    /\ cblock = 0 /\ sender = Server /\ size = 0 /\ got = <<>> /\ err = "none"
    /\ up \in BOOLEAN /\ sessions = [s \in Sids |-> NoSession] /\ opened = 0
    /\ stored = <<>> /\ resent = FALSE

\* Packet p is received and the packets in out are sent.
Exchange(p, out) ==
    /\ p \in net
    /\ \/ net' = (net \ {p}) \cup out /\ UNCHANGED dups
       \/ /\ dups < MaxDups /\ dups' = dups + 1
          /\ net' = net \cup out

\* Mutants: the number of the block is not looked at.
BugIsData(p, block) == p.kind = "data"
BugIsAck(p, block) == p.kind = "ack"

\* tftp_read_data and tftp_wait_ack: is p what one that has counted to
\* block waits for?
IsData(p, block) == p.kind = "data" /\ p.block = Succ(block)
IsAck(p, block) == p.kind = "ack" /\ p.block = block

----------------------------------------------------------------------------
(* The client                                                               *)

\* What is sent again when nothing comes.
Repeated ==
    CASE cpc = "await" -> Request
      [] cpc = "data" /\ op = "pull" -> Ack(Client, sender, cblock)
      [] cpc = "data" /\ op = "push" -> Data(Client, sender, cblock, size + 1)

\* Mutant: every time-out is the first.
BugClientTimeout ==
    /\ cpc # "done"
    /\ \/ /\ tries > 1 /\ net' = net \cup {Repeated}
          /\ UNCHANGED <<tries, cpc, err>>
       \/ /\ tries = 1 /\ tries' = 0 /\ cpc' = "done" /\ err' = "timeout"
          /\ UNCHANGED net
    /\ UNCHANGED <<dups, command, cblock, sender, size, got, server>>

\* The last time-out of a transfer under way leaves client->err as it is.
ClientTimeout ==
    /\ cpc # "done"
    /\ tries' = tries - 1
    /\ \/ /\ tries > 1 /\ net' = net \cup {Repeated}
          /\ UNCHANGED <<cpc, err>>
       \/ /\ tries = 1 /\ cpc' = "done"
          /\ err' = IF cpc = "await" THEN "timeout" ELSE "ok"
          /\ UNCHANGED net
    /\ UNCHANGED <<dups, command, cblock, sender, size, got, server>>

Fail(code) ==
    /\ cpc' = "done" /\ err' = code
    /\ UNCHANGED <<tries, cblock, size, got>>

\* tftp_client_pull
PullData(p) ==
    /\ op = "pull" /\ cpc # "done" /\ p.to = Client
    /\ sender' = p.from
    /\ \/ /\ IsData(p, cblock)
          /\ cblock' = p.block
          /\ got' = Append(got, p.chunk) /\ size' = size + 1
          /\ IF Short(p.chunk) THEN cpc' = "done" /\ err' = "ok" /\ UNCHANGED tries
                               ELSE cpc' = "data" /\ tries' = Retries /\ UNCHANGED err
          /\ Exchange(p, {Ack(Client, p.from, p.block)})
       \/ /\ IsData(p, cblock) /\ DiskFails
          /\ Fail("efile")
          /\ Exchange(p, {Error(Client, p.from)})
       \/ /\ ~IsData(p, cblock)
          /\ Fail("edata")
          /\ Exchange(p, {})
    /\ UNCHANGED <<command, server>>

\* tftp_client_push: a chunk is read once, then sent until it is
\* acknowledged.
PushAck(p) ==
    /\ op = "push" /\ cpc # "done" /\ p.to = Client
    /\ sender' = p.from
    /\ LET acked == IF cpc = "data" THEN size + 1 ELSE size IN
       \/ /\ IsAck(p, cblock) /\ present
          /\ cblock' = Succ(cblock) /\ size' = acked
          /\ IF acked = Full + 1
               THEN /\ cpc' = "done" /\ err' = "ok"
                    /\ Exchange(p, {}) /\ UNCHANGED tries
               ELSE /\ cpc' = "data" /\ tries' = Retries
                    /\ Exchange(p, {Data(Client, p.from, Succ(cblock), acked + 1)})
                    /\ UNCHANGED err
          /\ UNCHANGED got
       \/ /\ IsAck(p, cblock) /\ ~present
          /\ Fail("efile")
          /\ Exchange(p, {})
       \/ /\ ~IsAck(p, cblock)
          /\ Fail("eack")
          /\ Exchange(p, {})
    /\ UNCHANGED <<command, server>>

----------------------------------------------------------------------------
(* The server                                                               *)

\* tftp_file_read: the chunk at the offset of the file, and the offset then.
\* The position it is asked for is not used.  An absent file is not noticed
\* when it is opened, and reads as empty.
ReadAt(off) == IF present /\ off <= Full THEN off + 1 ELSE Empty
ReadOn(off) == IF off <= Full THEN off + 1 ELSE off

\* A session after tftp_server_send_file.
Sent(session) == [session EXCEPT !.last = ReadAt(session.off),
                                 !.off = ReadOn(session.off)]

\* tftp_server_request_handle and what is done on TFTP_SERVER_EVENT_CONNECT
Accept(p) ==
    /\ up /\ p.to = Server
    /\ opened' = opened + 1
    /\ LET s == opened + 1
           session == [live |-> TRUE, block |-> IF op = "pull" THEN 1 ELSE 0,
                       retry |-> Retries, off |-> 0, last |-> Empty] IN
       \/ /\ Cardinality(Live) < Slots /\ op = "pull"
          /\ sessions' = [sessions EXCEPT ![s] = Sent(session)]
          /\ Exchange(p, {Data(s, Client, 1, ReadAt(0))})
       \/ /\ Cardinality(Live) < Slots /\ op = "push"
          /\ sessions' = [sessions EXCEPT ![s] = session]
          /\ Exchange(p, {Ack(s, Client, 0)})
       \/ /\ Cardinality(Live) = Slots
          /\ Exchange(p, {Error(s, Client)})
          /\ UNCHANGED sessions
    /\ UNCHANGED <<command, client, up, stored, resent>>

\* TFTP_SERVER_EVENT_DATA of a read request
ServeAck(s, p) ==
    /\ op = "pull" /\ p.to = s /\ s \in Live
    /\ LET next == [sessions[s] EXCEPT !.block = Succ(@), !.retry = Retries] IN
       \/ /\ IsAck(p, sessions[s].block) /\ Short(sessions[s].last)
          /\ sessions' = Closed(s)
          /\ Exchange(p, {})
       \/ /\ IsAck(p, sessions[s].block) /\ ~Short(sessions[s].last)
          /\ sessions' = [sessions EXCEPT ![s] = Sent(next)]
          /\ Exchange(p, {Data(s, Client, next.block, ReadAt(next.off))})
       \/ /\ ~IsAck(p, sessions[s].block)
          /\ sessions' = Closed(s)
          /\ Exchange(p, {Error(s, Client)})
    /\ UNCHANGED <<command, client, up, opened, stored, resent>>

\* The file after a write at the offset off.
Written(off, chunk) ==
    [i \in 1..(IF off < Len(stored) THEN Len(stored) ELSE off + 1) |->
        IF i = off + 1 THEN chunk ELSE stored[i]]

\* TFTP_SERVER_EVENT_DATA of a write request
ServeData(s, p) ==
    /\ op = "push" /\ p.to = s /\ s \in Live
    /\ \/ /\ IsData(p, sessions[s].block)
          /\ stored' = Written(sessions[s].off, p.chunk)
          /\ sessions' = IF Short(p.chunk) THEN Closed(s)
                         ELSE [sessions EXCEPT ![s].block = p.block,
                                               ![s].off = @ + 1]
          /\ Exchange(p, {Ack(s, Client, p.block)})
       \/ /\ IsData(p, sessions[s].block) /\ DiskFails
          /\ sessions' = Closed(s)
          /\ Exchange(p, {Error(s, Client)})
          /\ UNCHANGED stored
       \/ /\ ~IsData(p, sessions[s].block)
          /\ sessions' = Closed(s)
          /\ Exchange(p, {})
          /\ UNCHANGED stored
    /\ UNCHANGED <<command, client, up, opened, resent>>

\* Mutants: a session is never given up; one is given up a time-out late.
BugTimedOut(session) ==
    CASE op = "pull" -> [Sent(session) EXCEPT !.retry = IF @ > 0 THEN @ - 1 ELSE 0]
      [] op = "push" -> [session EXCEPT !.retry = IF @ > 0 THEN @ - 1 ELSE 0]
BugTimedOutLate(session) ==
    CASE session.retry < 0 -> NoSession
      [] session.retry >= 0 /\ op = "pull" ->
            [Sent(session) EXCEPT !.retry = @ - 1]
      [] session.retry >= 0 /\ op = "push" -> [session EXCEPT !.retry = @ - 1]

\* A session after TFTP_SERVER_EVENT_TIMEOUT, and what it sends.
TimedOut(session) ==
    CASE session.retry = 0 -> NoSession
      [] session.retry > 0 /\ op = "pull" ->
            [Sent(session) EXCEPT !.retry = @ - 1]
      [] session.retry > 0 /\ op = "push" -> [session EXCEPT !.retry = @ - 1]
Resend(s) ==
    IF op = "pull" THEN Data(s, Client, sessions[s].block, ReadAt(sessions[s].off))
                   ELSE Ack(s, Client, sessions[s].block)

\* No socket had a packet for five seconds: all sessions, one after another.
ServerTimeout ==
    /\ up /\ Live # {}
    /\ LET again == {s \in Live : sessions[s].retry > 0} IN
       /\ net' = net \cup {Resend(s) : s \in again}
       /\ resent' = (resent \/ (op = "pull" /\ again # {}))
    /\ sessions' = [s \in Sids |-> IF s \in Live THEN TimedOut(sessions[s])
                                                 ELSE NoSession]
    /\ UNCHANGED <<dups, command, client, up, opened, stored>>

\* tftp --stop, once the server has seen it.
ServerStop ==
    /\ up /\ up' = FALSE
    /\ sessions' = [s \in Sids |-> NoSession]
    /\ UNCHANGED <<network, command, client, opened, stored, resent>>

----------------------------------------------------------------------------

Next == \/ \E p \in net : PullData(p) \/ PushAck(p) \/ Accept(p)
        \/ \E s \in Sids : \E p \in net : ServeAck(s, p) \/ ServeData(s, p)
        \/ ClientTimeout \/ ServerTimeout \/ ServerStop

\* A wait for packets ends, five seconds after the last one at the latest.
\* The network delivers nothing by necessity.
Spec == Init /\ [][Next]_vars /\ WF_vars(ClientTimeout) /\ WF_vars(ServerTimeout)

----------------------------------------------------------------------------
(* Properties                                                               *)

Packets == [kind : {"req", "data", "ack", "err"}, from : Sids \cup {Client},
            to : Sids \cup {Client, Server}, block : 0..Wrap - 1,
            chunk : Chunks \cup {Empty}]
Session == [live : BOOLEAN, block : 0..Wrap - 1, retry : 0..Retries,
            off : 0..Full + 1, last : Chunks \cup {Empty}]

\* Every variable holds a value of its C type, narrowed to what is stored.
TypeOK ==
    /\ net \subseteq Packets /\ dups \in 0..MaxDups
    /\ op \in {"pull", "push"} /\ present \in BOOLEAN
    /\ cpc \in {"await", "data", "done"} /\ tries \in 0..Retries
    /\ cblock \in 0..Wrap - 1 /\ sender \in Sids \cup {Client, Server}
    /\ size \in 0..Full + 1 /\ got \in Seq(Chunks \cup {Empty})
    /\ err \in {"none", "ok", "timeout", "efile", "edata", "eack"}
    /\ up \in BOOLEAN /\ opened \in 0..Retries + MaxDups
    /\ sessions \in [Sids -> Session]
    /\ stored \in Seq(Chunks) /\ resent \in BOOLEAN

File == [i \in 1..Full + 1 |-> i]

\* What a client has pulled is the file as far as it goes, and the whole
\* file when its last block has come, as long as the server has not sent a
\* block again.
PulledExact ==
    op = "pull" /\ present /\ ~resent =>
        /\ got = SubSeq(File, 1, Len(got))
        /\ Len(got) = Full + 1 <=> (got # <<>> /\ Short(got[Len(got)]))

\* What a client has pulled is the file as far as it goes.
PulledIsPrefix ==
    op = "pull" /\ present => got = SubSeq(File, 1, Len(got))

\* The server has the whole file when a push reports its full size and no
\* error, and never anything but the beginning of it.
PushedExact ==
    op = "push" => /\ stored = SubSeq(File, 1, Len(stored))
                   /\ err = "ok" /\ size = Full + 1 => stored = File

\* Every command ends, and every session is given back.
ClientEnds == <>(cpc = "done")
SessionsEnd == \A s \in Sids : s \in Live ~> s \notin Live

----------------------------------------------------------------------------
(* What a transfer implements                                               *)

\* The receiver's file, how the command has ended, and whether the server has
\* sent what the client waits for and nothing else.
Copy == IF op = "pull" THEN got ELSE stored
Report == CASE cpc # "done" -> "none"
            [] cpc = "done" /\ err = "ok" -> "ok"
            [] cpc = "done" /\ err # "ok" -> "failed"
Sound == op = "push" \/ (present /\ ~resent)

Delivery == INSTANCE FileDelivery WITH
    Pieces <- Chunks \cup {Empty}, copy <- Copy, counted <- size,
    report <- Report, sound <- Sound

\* No chunk of a copy is ever written again, removed or out of place, whichever
\* sessions write to it, but for a block the server has sent again; the size a
\* command returns is never more than what is in the copy, and a command that
\* has it all says so at once.
DeliverySpec == Delivery!Spec
============================================================================
