----------------------------- MODULE TftpProofs -----------------------------
(***************************************************************************)
(* What is proved of Tftp for every file of fewer than 65535 full blocks,  *)
(* every number of retries and sessions, and any number of lost, late and  *)
(* repeated packets: its types, that a pushed file is stored as it is, and *)
(* that a pulled one arrives as it is unless the server sends a block      *)
(* again.                                                                  *)
(***************************************************************************)
EXTENDS Tftp, TLAPS

\* Only requests go to the port of the server, and the client hears from
\* sessions only.
Addressed ==
    /\ \A p \in net : p.to = Client => p.from \in Sids
    /\ \A p \in net : p.to = Server => p = Request
    /\ cpc = "data" => sender \in Sids

\* Every session that is opened takes one request or one copy of it.
Within(n) == opened <= n /\ (Request \in net => opened < n)
Counted ==
    /\ Within(Retries + dups)
    /\ cpc = "await" => tries > 0 /\ Within(Retries - tries + 1 + dups)

\* A pull: a packet, a session and the client's file hold no chunk from
\* before the block that they are at.
Ahead(block, chunk) ==
    /\ block \in 1..Full + 1
    /\ chunk = Empty \/ block <= chunk
    /\ present /\ ~resent => chunk = block
PullSession(session) ==
    session.live => /\ Ahead(session.block, session.last)
                    /\ IF session.last = Empty THEN ReadAt(session.off) = Empty
                                               ELSE session.last = session.off
PullClient ==
    /\ size = Len(got)
    /\ cpc = "await" => cblock = 0 /\ size = 0
    /\ cpc = "data" => cblock = size /\ size <= Full
    /\ present /\ ~resent => \A i \in 1..Len(got) : got[i] = i
PullInv ==
    op = "pull" =>
        /\ \A p \in net : p.kind = "data" => Ahead(p.block, p.chunk)
        /\ \A s \in Sids : PullSession(sessions[s])
        /\ PullClient /\ stored = <<>>

\* A push: what is stored is ahead of what sessions have received, they are
\* ahead of what is acknowledged, and that is ahead of what the client counts.
PushSession(session) ==
    session.live => /\ session.block = session.off
                    /\ session.off <= Full /\ session.off <= Len(stored)
PushClient ==
    /\ size <= Len(stored) /\ got = <<>>
    /\ cpc = "await" => cblock = 0 /\ size = 0
    /\ cpc = "data" => cblock = size + 1 /\ size <= Full
PushInv ==
    op = "push" =>
        /\ \A p \in net : p.kind = "data" => p.block \in 1..Full + 1 /\ p.chunk = p.block
        /\ \A p \in net : p.kind = "ack" => p.block <= Len(stored)
        /\ \A s \in Sids : PushSession(sessions[s])
        /\ PushClient
        /\ Len(stored) <= Full + 1 /\ \A i \in 1..Len(stored) : stored[i] = i

IInv == TypeOK /\ Addressed /\ Counted /\ PullInv /\ PushInv

----------------------------------------------------------------------------
(* The operators                                                            *)

\* Sessions, the client and the server's port have different addresses.
LEMMA AddressFacts ==
    /\ Sids \subseteq Nat /\ Client \notin Sids /\ Server \notin Sids
    /\ Client # Server
  BY TftpAssumption DEF Sids, Client, Server

\* The number of a block of the file fits its 16 bits.
LEMMA WrapFacts == Wrap \in Nat /\ Full + 1 < Wrap /\ Full \in Nat
  BY TftpAssumption DEF Wrap

\* Counting a block of the file does not wrap.
LEMMA SuccFacts ==
    ASSUME NEW b \in 0..Wrap - 1
    PROVE  /\ Succ(b) \in 0..Wrap - 1
           /\ b <= Full => Succ(b) = b + 1
  <1>1. b + 1 \in Nat /\ Wrap \in Nat \ {0}
    BY WrapFacts
  <1>2. Succ(b) \in 0..Wrap - 1
    BY <1>1 DEF Succ
  <1>3. ASSUME b <= Full PROVE Succ(b) = b + 1
    <2>1. b + 1 < Wrap
      BY <1>3, WrapFacts
    <2> QED
      BY <1>1, <2>1 DEF Succ
  <1> QED
    BY <1>2, <1>3

\* A read returns the next chunk, or no data from then on.
LEMMA ReadFacts ==
    ASSUME present \in BOOLEAN, NEW off \in 0..Full + 1
    PROVE  /\ ReadAt(off) \in {Empty, off + 1} /\ ReadAt(off) \in Chunks \cup {Empty}
           /\ ReadOn(off) \in 0..Full + 1
           /\ ReadAt(off) # Empty => ReadOn(off) = off + 1 /\ ReadAt(off) = off + 1
           /\ present /\ off <= Full => ReadAt(off) = off + 1
           /\ ReadAt(off) = Empty => ReadAt(ReadOn(off)) = Empty
  BY TftpAssumption DEF ReadAt, ReadOn, Chunks, Empty

\* tftp_server_send_file reads one chunk and changes nothing else.
LEMMA SentFacts ==
    ASSUME present \in BOOLEAN, NEW session \in Session
    PROVE  /\ Sent(session) \in Session
           /\ Sent(session).live = session.live
           /\ Sent(session).block = session.block
           /\ Sent(session).retry = session.retry
           /\ Sent(session).last = ReadAt(session.off)
           /\ Sent(session).off = ReadOn(session.off)
  <1>1. /\ ReadAt(session.off) \in Chunks \cup {Empty}
        /\ ReadOn(session.off) \in 0..Full + 1
    BY ReadFacts DEF Session
  <1> DEFINE t == [session EXCEPT !.last = ReadAt(session.off),
                                  !.off = ReadOn(session.off)]
  <1>2. Sent(session) = t
    BY DEF Sent
  <1>3. /\ t \in Session
        /\ t.live = session.live /\ t.block = session.block
        /\ t.retry = session.retry /\ t.last = ReadAt(session.off)
        /\ t.off = ReadOn(session.off)
    <2> HIDE DEF Sent
    <2> QED
      BY <1>1 DEF Session
  <1> QED
    BY <1>2, <1>3

\* Fields of a session may be set to values of their types.
LEMMA SessionFacts ==
    ASSUME NEW session \in Session, NEW b \in 0..Wrap - 1, NEW r \in 0..Retries,
           NEW f \in 0..Full + 1
    PROVE  /\ [session EXCEPT !.block = b, !.retry = r] \in Session
           /\ [session EXCEPT !.block = b, !.off = f] \in Session
           /\ [session EXCEPT !.retry = r] \in Session
  BY DEF Session

\* A free place is a session that is not live.
LEMMA NoSessionFacts == NoSession \in Session /\ ~NoSession.live
  BY TftpAssumption, WrapFacts DEF NoSession, Session, Chunks, Empty

\* The packets that are sent are well formed.
LEMMA PacketFacts ==
    ASSUME NEW from \in Sids \cup {Client}, NEW to \in Sids \cup {Client, Server},
           NEW block \in 0..Wrap - 1, NEW chunk \in Chunks \cup {Empty}
    PROVE  /\ Request \in Packets
           /\ Data(from, to, block, chunk) \in Packets
           /\ Ack(from, to, block) \in Packets
           /\ Error(from, to) \in Packets
  BY WrapFacts DEF Request, Data, Ack, Error, Packet, Packets, Empty

----------------------------------------------------------------------------
(* The first state, the exchange of packets, the client's time-outs         *)

\* The invariant holds when the command has sent its request.
LEMMA InitIInv == Init => IInv
<1> SUFFICES ASSUME Init PROVE IInv
  OBVIOUS
<1>1. Request \in Packets
  BY PacketFacts, WrapFacts DEF Empty
<1>2. TypeOK
  <2>1. sessions \in [Sids -> Session]
    BY NoSessionFacts DEF Init
  <2>2. cblock \in 0..Wrap - 1 /\ size \in 0..Full + 1
    BY WrapFacts DEF Init
  <2>3. got \in Seq(Chunks \cup {Empty}) /\ stored \in Seq(Chunks)
    BY DEF Init
  <2>4. /\ dups \in 0..MaxDups /\ tries \in 0..Retries
        /\ opened \in 0..Retries + MaxDups
    BY TftpAssumption DEF Init
  <2>5. net \subseteq Packets
    BY <1>1 DEF Init
  <2>6. present \in BOOLEAN /\ resent \in BOOLEAN /\ up \in BOOLEAN
    <3>1. present = TRUE \/ present = ~Absent
      BY DEF Init
    <3>2. present \in BOOLEAN
      BY <3>1, Zenon
    <3> QED
      BY <3>2 DEF Init
  <2>7. /\ op \in {"pull", "push"} /\ cpc = "await" /\ sender = Server
        /\ err = "none"
    BY DEF Init
  <2> QED
    BY <2>1, <2>2, <2>3, <2>4, <2>5, <2>6, <2>7 DEF TypeOK
<1>3. Addressed
  BY AddressFacts DEF Init, Addressed, Request, Packet
<1>4. Counted
  BY TftpAssumption DEF Init, Counted, Within
<1>5. PullInv
  BY TftpAssumption, NoSessionFacts
     DEF Init, PullInv, PullSession, PullClient, Request, Packet
<1>6. PushInv
  BY TftpAssumption, NoSessionFacts
     DEF Init, PushInv, PushSession, PushClient, Request, Packet
<1> QED
  BY <1>2, <1>3, <1>4, <1>5, <1>6 DEF IInv

\* An exchange spends one request, or one of the repetitions, if it is one.
LEMMA ExchangeFacts ==
    ASSUME TypeOK, NEW p \in net, NEW out, Exchange(p, out), Request \notin out
    PROVE  /\ net' \subseteq net \cup out
           /\ dups \in Nat /\ dups' \in 0..MaxDups
           /\ dups' = dups \/ dups' = dups + 1
           /\ Request \in net' => Request \in net
           /\ p = Request => Request \in net /\ (Request \in net' => dups' = dups + 1)
  <1>1. dups \in 0..MaxDups /\ MaxDups \in Nat
    BY TftpAssumption DEF TypeOK
  <1>2. CASE net' = (net \ {p}) \cup out /\ dups' = dups
    BY <1>1, <1>2
  <1>3. CASE net' = net \cup out /\ dups' = dups + 1 /\ dups < MaxDups
    BY <1>1, <1>3
  <1> QED
    BY <1>2, <1>3 DEF Exchange

\* A time-out of the client: one more request only for one less retry.
LEMMA ClientTimeoutStep == IInv /\ ClientTimeout => IInv'
<1> SUFFICES ASSUME IInv, ClientTimeout PROVE IInv'
  OBVIOUS
<1>0. TypeOK /\ Addressed /\ Counted /\ PullInv /\ PushInv
  BY DEF IInv
<1>1. /\ cpc # "done" /\ cpc \in {"await", "data", "done"}
      /\ UNCHANGED <<dups, command, cblock, sender, size, got, server>>
      /\ net' \subseteq net \cup {Repeated}
      /\ err' \in {err, "ok", "timeout"}
  BY <1>0 DEF ClientTimeout, TypeOK
<1>2. /\ tries \in 1..Retries /\ tries' = tries - 1
      /\ \/ cpc' = cpc /\ tries > 1 /\ net' = net \cup {Repeated}
         \/ cpc' = "done" /\ net' = net
  <2>1. tries \in 0..Retries /\ Retries \in Nat
    BY <1>0, TftpAssumption DEF TypeOK
  <2> QED
    BY <2>1 DEF ClientTimeout
<1>3. /\ Repeated \in Packets /\ Repeated.to # Client
      /\ cpc = "data" => Repeated.to # Server
      /\ cpc = "await" => Repeated = Request
      /\ Repeated.to = Server => Repeated = Request
      /\ Repeated.kind = "data" =>
            op = "push" /\ Repeated.block = cblock /\ Repeated.chunk = size + 1 /\ cpc = "data"
      /\ Repeated.kind = "ack" => op = "pull"
  <2>1. CASE cpc = "await"
    <3>1. Repeated = Request
      BY <2>1 DEF Repeated
    <3>2. Request \in Packets
      BY PacketFacts, WrapFacts DEF Empty
    <3> QED
      BY <2>1, <3>1, <3>2, AddressFacts DEF Request, Packet
  <2>2. CASE cpc = "data" /\ op = "pull"
    <3>1. Repeated = Ack(Client, sender, cblock)
      BY <2>2 DEF Repeated
    <3>2. sender \in Sids /\ cblock \in 0..Wrap - 1
      BY <1>0, <2>2 DEF Addressed, TypeOK
    <3>3. Ack(Client, sender, cblock) \in Packets
      BY <3>2, PacketFacts DEF Empty
    <3> QED
      BY <2>2, <3>1, <3>2, <3>3, AddressFacts DEF Ack, Packet
  <2>3. CASE cpc = "data" /\ op = "push"
    <3>1. Repeated = Data(Client, sender, cblock, size + 1)
      BY <2>3 DEF Repeated
    <3>2. sender \in Sids /\ cblock \in 0..Wrap - 1
      BY <1>0, <2>3 DEF Addressed, TypeOK
    <3>3. size + 1 \in Chunks
      <4>1. size \in 0..Full + 1 /\ size <= Full
        BY <1>0, <2>3 DEF TypeOK, PushInv, PushClient
      <4> QED
        BY <4>1, WrapFacts DEF Chunks
    <3>4. Data(Client, sender, cblock, size + 1) \in Packets
      BY <3>2, <3>3, PacketFacts
    <3> QED
      BY <2>3, <3>1, <3>2, <3>4, AddressFacts DEF Data, Packet
  <2> QED
    BY <1>0, <1>1, <2>1, <2>2, <2>3 DEF TypeOK
<1>4. TypeOK'
  <2>1. tries' \in 0..Retries /\ cpc' \in {"await", "data", "done"}
    BY <1>1, <1>2, TftpAssumption
  <2>2. net' \subseteq Packets
    BY <1>0, <1>1, <1>3 DEF TypeOK
  <2> QED
    BY <1>0, <1>1, <2>1, <2>2 DEF TypeOK, command, server
<1>5. Addressed'
  BY <1>0, <1>1, <1>2, <1>3 DEF Addressed
<1>6. Counted'
  <2>1. dups \in Nat /\ Retries \in Nat /\ opened \in Nat
    BY <1>0, TftpAssumption DEF TypeOK
  <2>2. Within(Retries + dups) /\ tries \in 1..Retries
    BY <1>0, <1>2 DEF Counted
  <2>3. CASE cpc' = "done" /\ net' = net
    BY <1>1, <2>2, <2>3 DEF Counted, Within, server
  <2>4. CASE cpc' = "await" /\ cpc = "await" /\ tries > 1
    <3>1. opened <= Retries - tries + 1 + dups
      BY <1>0, <2>4 DEF Counted, Within
    <3>2. opened' = opened /\ dups' = dups /\ tries' = tries - 1
      BY <1>1, <1>2 DEF server
    <3>3. tries' > 0 /\ opened' < Retries - tries' + 1 + dups'
      BY <2>1, <2>2, <2>4, <3>1, <3>2
    <3>4. opened' < Retries + dups'
      BY <2>1, <2>2, <2>4, <3>2, <3>3
    <3> QED
      BY <2>1, <2>2, <2>4, <3>2, <3>3, <3>4 DEF Counted, Within
  <2>5. CASE cpc' = "data" /\ cpc = "data"
    <3>1. Repeated # Request
      BY <1>3, <2>5 DEF Request, Packet
    <3>2. Request \in net' => Request \in net
      BY <1>1, <3>1
    <3> QED
      BY <1>1, <2>2, <2>5, <3>2 DEF Counted, Within, server
  <2> QED
    BY <1>1, <1>2, <2>3, <2>4, <2>5
<1>7. PullInv'
  BY <1>0, <1>1, <1>2, <1>3
     DEF PullInv, PullSession, PullClient, Ahead, ReadAt, command, server
<1>8. PushInv'
  <2> SUFFICES ASSUME op = "push" PROVE PushInv'
    BY <1>1 DEF PushInv, command
  <2>1. /\ size \in 0..Full + 1 /\ Full \in Nat
        /\ cpc = "data" => cblock = size + 1 /\ size <= Full
    BY <1>0, WrapFacts DEF TypeOK, PushInv, PushClient
  <2>2. Repeated.kind = "data" => Repeated.block \in 1..Full + 1 /\ Repeated.chunk = Repeated.block
    BY <1>3, <2>1
  <2>3. \A p \in net' : p.kind = "data" => p.block \in 1..Full + 1 /\ p.chunk = p.block
    BY <1>0, <1>1, <2>2 DEF PushInv
  <2>4. \A p \in net' : p.kind = "ack" => p.block <= Len(stored)
    BY <1>0, <1>1, <1>3 DEF PushInv
  <2> QED
    BY <1>0, <1>1, <1>2, <2>3, <2>4 DEF PushInv, PushSession, PushClient, command, server
<1> QED
  BY <1>4, <1>5, <1>6, <1>7, <1>8 DEF IInv

----------------------------------------------------------------------------
(* The client receives a packet                                             *)

\* tftp_client_pull takes a packet.
LEMMA PullDataStep ==
    ASSUME IInv, NEW p \in net, PullData(p)
    PROVE  IInv'
<1>0. TypeOK /\ Addressed /\ Counted /\ PullInv /\ PushInv
  BY DEF IInv
<1>1. /\ op = "pull" /\ cpc # "done" /\ p.to = Client /\ sender' = p.from
      /\ UNCHANGED <<command, server>>
  BY DEF PullData
<1>2. /\ p \in Packets /\ p.from \in Sids /\ p.block \in 0..Wrap - 1
      /\ p.chunk \in Chunks \cup {Empty} /\ p # Request
  <2>1. p.from \in Sids
    BY <1>0, <1>1 DEF Addressed
  <2>2. p \in Packets
    BY <1>0 DEF TypeOK
  <2> QED
    BY <1>1, <2>1, <2>2, AddressFacts DEF Packets, Request, Packet
<1>3. /\ cblock = size /\ size = Len(got) /\ size <= Full
      /\ size \in 0..Full /\ cblock \in 0..Wrap - 1
      /\ got \in Seq(Chunks \cup {Empty})
  <2>1. cpc \in {"await", "data"}
    BY <1>0, <1>1 DEF TypeOK
  <2>2. size \in 0..Full + 1 /\ got \in Seq(Chunks \cup {Empty}) /\ cblock \in 0..Wrap - 1
    BY <1>0 DEF TypeOK
  <2>3. PullClient
    BY <1>0, <1>1 DEF PullInv
  <2> QED
    BY <2>1, <2>2, <2>3, WrapFacts DEF PullClient
<1>4. IsData(p, cblock) => p.block = size + 1 /\ Ahead(size + 1, p.chunk)
  <2> SUFFICES ASSUME IsData(p, cblock) PROVE p.block = size + 1 /\ Ahead(size + 1, p.chunk)
    OBVIOUS
  <2>1. p.block = size + 1
    BY <1>3, SuccFacts DEF IsData
  <2> QED
    BY <1>0, <1>1, <2>1 DEF IsData, PullInv
<1> DEFINE answer == {Ack(Client, p.from, p.block), Error(Client, p.from)}
<1>5. /\ answer \subseteq Packets /\ Request \notin answer
      /\ \A a \in answer : a.to \in Sids /\ a.kind # "data"
  BY <1>2, PacketFacts, AddressFacts DEF Ack, Error, Packet, Request, Empty
<1> HIDE DEF answer
<1>6. /\ cpc' \in {"data", "done"} /\ tries' \in {tries, Retries}
      /\ err' \in {err, "ok", "efile", "edata"}
      /\ \E out \in SUBSET answer : Exchange(p, out)
      /\ \/ UNCHANGED <<cblock, size, got>> /\ cpc' = "done"
         \/ /\ IsData(p, cblock) /\ cblock' = p.block /\ size' = size + 1
            /\ got' = Append(got, p.chunk)
            /\ cpc' = "data" => ~Short(p.chunk)
  <2>1. CASE /\ IsData(p, cblock)
             /\ cblock' = p.block
             /\ got' = Append(got, p.chunk) /\ size' = size + 1
             /\ IF Short(p.chunk) THEN cpc' = "done" /\ err' = "ok" /\ UNCHANGED tries
                                  ELSE cpc' = "data" /\ tries' = Retries /\ UNCHANGED err
             /\ Exchange(p, {Ack(Client, p.from, p.block)})
    <3>1. {Ack(Client, p.from, p.block)} \subseteq answer
      BY DEF answer
    <3> QED
      BY <2>1, <3>1
  <2>2. CASE /\ IsData(p, cblock) /\ DiskFails
             /\ Fail("efile")
             /\ Exchange(p, {Error(Client, p.from)})
    <3>1. {Error(Client, p.from)} \subseteq answer
      BY DEF answer
    <3> QED
      BY <2>2, <3>1 DEF Fail
  <2>3. CASE /\ ~IsData(p, cblock)
             /\ Fail("edata")
             /\ Exchange(p, {})
    <3>1. {} \subseteq answer
      OBVIOUS
    <3> QED
      BY <2>3, <3>1 DEF Fail
  <2> QED
    BY <2>1, <2>2, <2>3 DEF PullData
<1>7. PICK out \in SUBSET answer : Exchange(p, out)
  BY <1>6
<1>8. /\ net' \subseteq net \cup out
      /\ dups \in Nat /\ dups' \in 0..MaxDups
      /\ dups' = dups \/ dups' = dups + 1
      /\ Request \in net' => Request \in net
  <2>1. Request \notin out
    BY <1>5
  <2> QED
    BY <1>0, <1>7, <2>1, ExchangeFacts
<1>9. TypeOK'
  <2>1. net' \subseteq Packets /\ sender' \in Sids \cup {Client, Server}
    BY <1>0, <1>1, <1>2, <1>5, <1>8 DEF TypeOK
  <2>2. tries' \in 0..Retries
    BY <1>0, <1>6, TftpAssumption DEF TypeOK
  <2>3. cblock' \in 0..Wrap - 1
    BY <1>2, <1>3, <1>6
  <2>4. size' \in 0..Full + 1
    BY <1>3, <1>6, WrapFacts
  <2>5. got' \in Seq(Chunks \cup {Empty})
    BY <1>2, <1>3, <1>6
  <2>6. /\ cpc' \in {"await", "data", "done"}
        /\ err' \in {"none", "ok", "timeout", "efile", "edata", "eack"}
    BY <1>0, <1>6 DEF TypeOK
  <2> QED
    BY <1>0, <1>1, <1>8, <2>1, <2>2, <2>3, <2>4, <2>5, <2>6 DEF TypeOK, command, server
<1>10. Addressed'
  BY <1>0, <1>1, <1>2, <1>5, <1>8, AddressFacts DEF Addressed
<1>11. Counted'
  <2>1. dups \in Nat /\ Retries \in Nat /\ opened \in Nat
    BY <1>0, TftpAssumption DEF TypeOK
  <2>2. Within(Retries + dups) /\ opened' = opened
    BY <1>0, <1>1 DEF Counted, server
  <2>4. Within(Retries + dups)'
    <3>1. CASE dups' = dups
      BY <1>8, <2>1, <2>2, <3>1 DEF Within
    <3>2. CASE dups' = dups + 1
      BY <1>8, <2>1, <2>2, <3>2 DEF Within
    <3> QED
      BY <1>8, <3>1, <3>2
  <2> QED
    BY <1>6, <2>4 DEF Counted
<1>12. PullInv'
  <2>1. \A q \in net' : q.kind = "data" => Ahead(q.block, q.chunk)
    BY <1>0, <1>1, <1>5, <1>8 DEF PullInv
  <2>2. size' = Len(got')
    BY <1>2, <1>3, <1>6
  <2>3. cpc' = "data" => cblock' = size' /\ size' <= Full
    <3> SUFFICES ASSUME cpc' = "data" PROVE cblock' = size' /\ size' <= Full
      OBVIOUS
    <3>1. IsData(p, cblock) /\ cblock' = p.block /\ size' = size + 1 /\ p.chunk \in 1..Full
      BY <1>6 DEF Short
    <3>2. size + 1 <= p.chunk
      BY <1>4, <3>1 DEF Ahead, Empty
    <3> QED
      BY <1>3, <1>4, <3>1, <3>2, WrapFacts
  <2>4. present /\ ~resent => \A i \in 1..Len(got') : got'[i] = i
    <3> SUFFICES ASSUME present, ~resent PROVE \A i \in 1..Len(got') : got'[i] = i
      OBVIOUS
    <3>1. \A i \in 1..Len(got) : got[i] = i
      BY <1>0, <1>1 DEF PullInv, PullClient
    <3>2. CASE got' = got
      BY <3>1, <3>2
    <3>3. CASE IsData(p, cblock) /\ got' = Append(got, p.chunk)
      <4>1. p.chunk = size + 1
        BY <1>4, <3>3 DEF Ahead
      <4> QED
        BY <1>2, <1>3, <3>1, <3>3, <4>1
    <3> QED
      BY <1>6, <3>2, <3>3
  <2>5. PullClient'
    BY <1>1, <1>6, <2>2, <2>3, <2>4 DEF PullClient, command, server
  <2>6. \A s \in Sids : PullSession(sessions[s])'
    BY <1>0, <1>1 DEF PullInv, PullSession, Ahead, ReadAt, command, server
  <2>7. \A q \in net' : q.kind = "data" => Ahead(q.block, q.chunk)'
    BY <1>1, <2>1 DEF Ahead, command, server
  <2> QED
    BY <1>0, <1>1, <2>5, <2>6, <2>7 DEF PullInv, command, server
<1>13. PushInv'
  BY <1>1 DEF PushInv, command
<1> QED
  BY <1>9, <1>10, <1>11, <1>12, <1>13 DEF IInv

\* tftp_client_push takes a packet.
LEMMA PushAckStep ==
    ASSUME IInv, NEW p \in net, PushAck(p)
    PROVE  IInv'
<1>0. TypeOK /\ Addressed /\ Counted /\ PullInv /\ PushInv
  BY DEF IInv
<1>1. /\ op = "push" /\ cpc # "done" /\ p.to = Client /\ sender' = p.from
      /\ UNCHANGED <<command, server>>
  BY DEF PushAck
<1>2. /\ p \in Packets /\ p.from \in Sids /\ p # Request
  <2>1. p.from \in Sids
    BY <1>0, <1>1 DEF Addressed
  <2>2. p \in Packets
    BY <1>0 DEF TypeOK
  <2> QED
    BY <1>1, <2>1, <2>2, AddressFacts DEF Packets, Request, Packet
<1> DEFINE acked == IF cpc = "data" THEN size + 1 ELSE size
           sent == Data(Client, p.from, Succ(cblock), acked + 1)
<1>3. /\ cblock \in 0..Full + 1 /\ acked = cblock /\ cblock \in 0..Wrap - 1
      /\ Succ(cblock) \in 0..Wrap - 1 /\ size \in 0..Full
      /\ cblock <= Full => Succ(cblock) = cblock + 1
      /\ cpc = "await" => acked = 0
  <2>1. cpc \in {"await", "data"}
    BY <1>0, <1>1 DEF TypeOK
  <2>2. size \in 0..Full + 1 /\ cblock \in 0..Wrap - 1
    BY <1>0 DEF TypeOK
  <2>3. PushClient
    BY <1>0, <1>1 DEF PushInv
  <2> QED
    BY <2>1, <2>2, <2>3, WrapFacts, SuccFacts DEF PushClient
<1>4. /\ IsAck(p, cblock) => acked <= Len(stored)
      /\ Len(stored) \in Nat /\ Len(stored) <= Full + 1
  BY <1>0, <1>1, <1>3 DEF IsAck, PushInv, TypeOK
<1> HIDE DEF acked
<1> DEFINE Sends == {q \in Packets : /\ q.to \in Sids /\ q.kind = "data"
                                     /\ q.block \in 1..Full + 1 /\ q.chunk = q.block}
<1>6. IsAck(p, cblock) /\ acked # Full + 1 => sent \in Sends
  <2> SUFFICES ASSUME IsAck(p, cblock), acked # Full + 1 PROVE sent \in Sends
    OBVIOUS
  <2>1. Succ(cblock) = acked + 1 /\ acked + 1 \in Chunks
    BY <1>3, WrapFacts DEF Chunks
  <2>2. sent \in Packets
    BY <1>2, <1>3, <2>1, PacketFacts
  <2> QED
    BY <1>2, <2>1, <2>2 DEF Data, Packet, Chunks
<1>7. /\ cpc' \in {"data", "done"} /\ tries' \in {tries, Retries}
      /\ err' \in {err, "ok", "efile", "eack"} /\ got' = got
      /\ \E out \in SUBSET Sends : Exchange(p, out)
      /\ \/ UNCHANGED <<cblock, size>> /\ cpc' = "done"
         \/ /\ IsAck(p, cblock) /\ cblock' = Succ(cblock) /\ size' = acked
            /\ cpc' = "data" => acked # Full + 1
  <2>0. {} \subseteq Sends
    OBVIOUS
  <2>1. CASE /\ IsAck(p, cblock) /\ present
             /\ cblock' = Succ(cblock) /\ size' = acked
             /\ IF acked = Full + 1
                  THEN /\ cpc' = "done" /\ err' = "ok"
                       /\ Exchange(p, {}) /\ UNCHANGED tries
                  ELSE /\ cpc' = "data" /\ tries' = Retries
                       /\ Exchange(p, {sent})
                       /\ UNCHANGED err
             /\ UNCHANGED got
    <3>1. CASE acked = Full + 1
      BY <2>0, <2>1, <3>1
    <3>2. CASE acked # Full + 1
      <4>1. {sent} \subseteq Sends
        BY <1>6, <2>1, <3>2
      <4> HIDE DEF Sends, sent
      <4> QED
        BY <2>1, <3>2, <4>1
    <3> QED
      BY <3>1, <3>2
  <2>2. CASE Fail("efile") /\ Exchange(p, {})
    BY <2>0, <2>2 DEF Fail
  <2>3. CASE Fail("eack") /\ Exchange(p, {})
    BY <2>0, <2>3 DEF Fail
  <2> QED
    BY <2>1, <2>2, <2>3 DEF PushAck, acked
<1>8. PICK out \in SUBSET Sends : Exchange(p, out)
  BY <1>7
<1>9. /\ net' \subseteq net \cup out
      /\ dups \in Nat /\ dups' \in 0..MaxDups
      /\ dups' = dups \/ dups' = dups + 1
      /\ Request \in net' => Request \in net
  <2>1. Request \notin out
    BY <1>8, AddressFacts DEF Request, Packet
  <2> QED
    BY <1>0, <1>8, <2>1, ExchangeFacts
<1>10. TypeOK'
  <2>1. net' \subseteq Packets /\ sender' \in Sids \cup {Client, Server}
    BY <1>0, <1>1, <1>2, <1>9 DEF TypeOK
  <2>2. tries' \in 0..Retries
    BY <1>0, <1>7, TftpAssumption DEF TypeOK
  <2>3. cblock' \in 0..Wrap - 1
    BY <1>3, <1>7
  <2>4. size' \in 0..Full + 1
    BY <1>3, <1>7, WrapFacts
  <2>5. got' \in Seq(Chunks \cup {Empty})
    BY <1>0, <1>7 DEF TypeOK
  <2>6. /\ cpc' \in {"await", "data", "done"}
        /\ err' \in {"none", "ok", "timeout", "efile", "edata", "eack"}
    BY <1>0, <1>7 DEF TypeOK
  <2> QED
    BY <1>0, <1>1, <1>9, <2>1, <2>2, <2>3, <2>4, <2>5, <2>6 DEF TypeOK, command, server
<1>11. Addressed'
  BY <1>0, <1>1, <1>2, <1>9, AddressFacts DEF Addressed
<1>12. Counted'
  <2>1. dups \in Nat /\ Retries \in Nat /\ opened \in Nat
    BY <1>0, TftpAssumption DEF TypeOK
  <2>2. Within(Retries + dups) /\ opened' = opened
    BY <1>0, <1>1 DEF Counted, server
  <2>4. Within(Retries + dups)'
    <3>1. CASE dups' = dups
      BY <1>9, <2>1, <2>2, <3>1 DEF Within
    <3>2. CASE dups' = dups + 1
      BY <1>9, <2>1, <2>2, <3>2 DEF Within
    <3> QED
      BY <1>9, <3>1, <3>2
  <2> QED
    BY <1>7, <2>4 DEF Counted
<1>13. PullInv'
  BY <1>1 DEF PullInv, command
<1>14. PushInv'
  <2>1. \A q \in net' : q.kind = "data" => q.block \in 1..Full + 1 /\ q.chunk = q.block
    BY <1>0, <1>1, <1>9 DEF PushInv
  <2>2. \A q \in net' : q.kind = "ack" => q.block <= Len(stored)
    BY <1>0, <1>1, <1>9 DEF PushInv
  <2>3. size' <= Len(stored) /\ got' = <<>>
    BY <1>0, <1>1, <1>4, <1>7 DEF PushInv, PushClient
  <2>4. cpc' = "data" => cblock' = size' + 1 /\ size' <= Full
    BY <1>3, <1>7, WrapFacts
  <2>5. PushClient'
    BY <1>1, <1>7, <2>3, <2>4 DEF PushClient, server
  <2> QED
    BY <1>0, <1>1, <2>1, <2>2, <2>5 DEF PushInv, PushSession, command, server
<1> QED
  BY <1>10, <1>11, <1>12, <1>13, <1>14 DEF IInv

----------------------------------------------------------------------------
(* The server                                                               *)

\* What a step of the server leaves alone of the client.
LEMMA ServerFrame ==
    ASSUME IInv, UNCHANGED <<command, client>>, Within(Retries + dups)',
           NEW out, net' \subseteq net \cup out,
           cpc = "await" => Within(Retries - tries + 1 + dups)',
           dups' \in 0..MaxDups, out \subseteq Packets, 
           \A a \in out : a.to = Client /\ a.from \in Sids
    PROVE  /\ Addressed' /\ Counted'
           /\ net' \subseteq Packets
  <1>1. TypeOK /\ Addressed /\ Counted
    BY DEF IInv
  <1>2. Addressed'
    BY <1>1, AddressFacts DEF Addressed, client
  <1>3. Counted'
    BY <1>1 DEF Counted, client
  <1> QED
    BY <1>1, <1>2, <1>3 DEF TypeOK

\* A request opens a session, or is refused.
LEMMA AcceptStep ==
    ASSUME IInv, NEW p \in net, Accept(p)
    PROVE  IInv'
<1>0. TypeOK /\ Addressed /\ Counted /\ PullInv /\ PushInv
  BY DEF IInv
<1>1. /\ p = Request /\ opened' = opened + 1
      /\ UNCHANGED <<command, client, up, stored, resent>>
  BY <1>0 DEF Accept, Addressed
<1>2. /\ dups \in 0..MaxDups /\ MaxDups \in Nat /\ Retries \in Nat
      /\ opened \in 0..Retries + MaxDups /\ present \in BOOLEAN
      /\ sessions \in [Sids -> Session] /\ op \in {"pull", "push"}
      /\ Len(stored) \in Nat /\ tries \in 0..Retries
  BY <1>0, TftpAssumption DEF TypeOK
<1> DEFINE s == opened + 1
           session == [live |-> TRUE, block |-> IF op = "pull" THEN 1 ELSE 0,
                       retry |-> Retries, off |-> 0, last |-> Empty]
           sent == IF op = "pull" THEN Data(s, Client, 1, ReadAt(0)) ELSE Ack(s, Client, 0)
           after == IF op = "pull" THEN Sent(session) ELSE session
           answer == {sent, Error(s, Client)}
<1>3. s \in Sids
  <2>1. opened < Retries + dups
    BY <1>0, <1>1 DEF Counted, Within
  <2> QED
    BY <1>2, <2>1 DEF Sids
<1>4. session \in Session
  BY <1>2, WrapFacts DEF Session
<1>5. /\ after \in Session /\ after.live
      /\ op = "pull" => after.block = 1 /\ after.last = ReadAt(0) /\ after.off = ReadOn(0)
      /\ op = "push" => after.block = 0 /\ after.off = 0
  <2>1. 0 \in 0..Full + 1
    BY WrapFacts
  <2>2. CASE op = "pull"
    <3>1. after = Sent(session)
      BY <2>2
    <3>2. session.live /\ session.off = 0 /\ session.block = 1
      BY <2>2
    <3> HIDE DEF session, after
    <3> QED
      BY <1>2, <1>4, <2>2, <3>1, <3>2, SentFacts
  <2>3. CASE op = "push"
    BY <1>4, <2>3
  <2> QED
    BY <1>2, <2>2, <2>3
<1>6. /\ answer \subseteq Packets /\ Request \notin answer
      /\ \A a \in answer : a.to = Client /\ a.from \in Sids
      /\ \A a \in answer : a.kind = "data" =>
            op = "pull" /\ a.block = 1 /\ a.chunk = ReadAt(0)
      /\ \A a \in answer : a.kind = "ack" => op = "push" /\ a.block = 0
  <2>1. ReadAt(0) \in Chunks \cup {Empty}
    BY <1>2, ReadFacts, WrapFacts
  <2> HIDE DEF s
  <2>2. Data(s, Client, 1, ReadAt(0)) \in Packets /\ Ack(s, Client, 0) \in Packets
        /\ Error(s, Client) \in Packets
    BY <1>3, <2>1, PacketFacts, WrapFacts DEF Empty
  <2> QED
    BY <1>2, <1>3, <2>2, AddressFacts DEF Data, Ack, Error, Packet, Request
<1>7. /\ \E out \in SUBSET answer : Exchange(p, out)
      /\ sessions' = sessions \/ sessions' = [sessions EXCEPT ![s] = after]
  BY <1>2 DEF Accept
<1> HIDE DEF session, after, sent, answer, s
<1>8. PICK out \in SUBSET answer : Exchange(p, out)
  BY <1>7
<1>9. /\ net' \subseteq net \cup out /\ dups' \in 0..MaxDups
      /\ dups' = dups \/ dups' = dups + 1
      /\ Request \in net /\ (Request \in net' => dups' = dups + 1)
  BY <1>0, <1>1, <1>6, <1>8, ExchangeFacts
<1>10. /\ Within(Retries + dups)'
       /\ cpc = "await" => Within(Retries - tries + 1 + dups)'
  <2>1. /\ opened < Retries + dups
        /\ cpc = "await" => opened < Retries - tries + 1 + dups
    BY <1>0, <1>1 DEF Counted, Within
  <2>2. tries' = tries
    BY <1>1 DEF client
  <2>3. CASE dups' = dups
    BY <1>1, <1>2, <1>9, <2>1, <2>2, <2>3 DEF Within
  <2>4. CASE dups' = dups + 1
    BY <1>1, <1>2, <1>9, <2>1, <2>2, <2>4 DEF Within
  <2> QED
    BY <1>9, <2>3, <2>4
<1>11. Addressed' /\ Counted' /\ net' \subseteq Packets
  BY <1>1, <1>6, <1>9, <1>10, ServerFrame
<1>12. TypeOK'
  <2>1. sessions' \in [Sids -> Session]
    BY <1>2, <1>5, <1>7
  <2>2. opened' \in 0..Retries + MaxDups
    BY <1>1, <1>2, <1>3 DEF s, Sids
  <2> QED
    BY <1>0, <1>1, <1>9, <1>11, <2>1, <2>2 DEF TypeOK, command, client
<1>13. PullInv'
  <2> SUFFICES ASSUME op = "pull" PROVE PullInv'
    BY <1>1 DEF PullInv, command
  <2>1. /\ Ahead(1, ReadAt(0))
        /\ IF ReadAt(0) = Empty THEN ReadAt(ReadOn(0)) = Empty
                                ELSE ReadAt(0) = ReadOn(0)
    BY <1>2, ReadFacts, WrapFacts DEF Ahead
  <2>2. \A q \in net' : q.kind = "data" => Ahead(q.block, q.chunk)
    BY <1>0, <1>6, <1>9, <2>1 DEF PullInv
  <2>3. \A i \in Sids : PullSession(sessions'[i])
    <3>1. PullSession(after)
      BY <1>5, <2>1 DEF PullSession
    <3> QED
      BY <1>0, <1>2, <1>7, <3>1 DEF PullInv
  <2> QED
    BY <1>0, <1>1, <2>2, <2>3
       DEF PullInv, PullSession, PullClient, Ahead, ReadAt, command, client
<1>14. PushInv'
  <2> SUFFICES ASSUME op = "push" PROVE PushInv'
    BY <1>1 DEF PushInv, command
  <2>1. \A q \in net' : q.kind = "data" => q.block \in 1..Full + 1 /\ q.chunk = q.block
    BY <1>0, <1>6, <1>9 DEF PushInv
  <2>2. \A q \in net' : q.kind = "ack" => q.block <= Len(stored)
    BY <1>0, <1>2, <1>6, <1>9 DEF PushInv
  <2>3. \A i \in Sids : PushSession(sessions'[i])
    <3>1. PushSession(after)
      BY <1>2, <1>5, WrapFacts DEF PushSession
    <3> QED
      BY <1>0, <1>2, <1>7, <3>1 DEF PushInv
  <2> QED
    BY <1>0, <1>1, <2>1, <2>2, <2>3 DEF PushInv, PushSession, PushClient, command, client
<1> QED
  BY <1>11, <1>12, <1>13, <1>14 DEF IInv

\* A session of a pull takes an acknowledgement.
LEMMA ServeAckStep ==
    ASSUME IInv, NEW p \in net, NEW s \in Sids, ServeAck(s, p)
    PROVE  IInv'
<1>0. TypeOK /\ Addressed /\ Counted /\ PullInv /\ PushInv
  BY DEF IInv
<1>1. /\ op = "pull" /\ sessions[s].live /\ p # Request
      /\ UNCHANGED <<command, client, up, opened, stored, resent>>
  BY AddressFacts DEF ServeAck, Live, Request, Packet
<1> DEFINE cur == sessions[s]
           next == [cur EXCEPT !.block = Succ(@), !.retry = Retries]
           sent == Data(s, Client, next.block, ReadAt(next.off))
           answer == {q \in Packets : /\ q.to = Client /\ q.from = s
                                      /\ q.kind = "data" => Ahead(q.block, q.chunk)}
<1>2. /\ cur \in Session /\ present \in BOOLEAN
      /\ sessions \in [Sids -> Session] /\ dups \in 0..MaxDups
      /\ Retries \in Nat /\ opened \in Nat /\ tries \in Nat
      /\ PullSession(cur) /\ cur.live
  BY <1>0, <1>1, TftpAssumption DEF TypeOK, PullInv
<1>3. /\ next \in Session /\ next.live /\ next.off = cur.off
      /\ next.block = Succ(cur.block)
  <2>1. Succ(cur.block) \in 0..Wrap - 1
    BY <1>2, SuccFacts DEF Session
  <2>2. Retries \in 0..Retries /\ 0 \in 0..Full + 1
    BY <1>2, WrapFacts
  <2>3. [cur EXCEPT !.block = Succ(cur.block), !.retry = Retries] \in Session
    BY <1>2, <2>1, <2>2, SessionFacts
  <2> QED
    BY <1>2, <2>3 DEF Session
<1>4. ~Short(cur.last) =>
        /\ Ahead(next.block, ReadAt(cur.off)) /\ PullSession(Sent(next))
        /\ Sent(next) \in Session
  <2> SUFFICES ASSUME ~Short(cur.last)
               PROVE  /\ Ahead(next.block, ReadAt(cur.off)) /\ PullSession(Sent(next))
                      /\ Sent(next) \in Session
    OBVIOUS
  <2>1. /\ cur.last = cur.off /\ cur.off \in 1..Full /\ cur.block \in 1..cur.off
        /\ present /\ ~resent => cur.off = cur.block
    BY <1>1, <1>2, WrapFacts DEF Short, PullSession, Ahead, Empty
  <2>2. next.block = cur.block + 1
    <3>1. cur.block \in 0..Wrap - 1 /\ cur.block <= Full
      BY <1>2, <2>1, WrapFacts DEF Session
    <3> QED
      BY <1>3, <3>1, SuccFacts
  <2>3. cur.off \in 0..Full + 1 /\ next.off \in 0..Full + 1
    BY <1>3, <2>1, WrapFacts
  <2>4. Ahead(next.block, ReadAt(cur.off))
    <3>1. ReadAt(cur.off) \in {Empty, cur.off + 1} /\ (present => ReadAt(cur.off) = cur.off + 1)
      BY <1>2, <2>1, <2>3, ReadFacts
    <3> QED
      BY <2>1, <2>2, <3>1, WrapFacts DEF Ahead
  <2> HIDE DEF next
  <2>5. /\ Sent(next) \in Session /\ Sent(next).block = next.block
        /\ Sent(next).last = ReadAt(cur.off) /\ Sent(next).off = ReadOn(cur.off)
    BY <1>2, <1>3, SentFacts
  <2> QED
    BY <1>2, <2>3, <2>4, <2>5, ReadFacts DEF PullSession
<1>5. ~Short(cur.last) => sent \in answer
  <2> SUFFICES ASSUME ~Short(cur.last) PROVE sent \in answer
    OBVIOUS
  <2>1. ReadAt(cur.off) \in Chunks \cup {Empty} /\ next.block \in 0..Wrap - 1
    BY <1>2, <1>3, ReadFacts DEF Session
  <2> HIDE DEF next
  <2>2. sent \in Packets
    BY <1>3, <2>1, PacketFacts
  <2> QED
    BY <1>3, <1>4, <2>2 DEF Data, Packet
<1>6. Error(s, Client) \in answer
  <2>1. Error(s, Client) \in Packets
    BY PacketFacts, WrapFacts DEF Empty
  <2> QED
    BY <2>1 DEF Error, Packet
<1>7. /\ \E out \in SUBSET answer : Exchange(p, out)
      /\ \/ sessions' = [sessions EXCEPT ![s] = NoSession]
         \/ ~Short(cur.last) /\ sessions' = [sessions EXCEPT ![s] = Sent(next)]
  <2> HIDE DEF answer
  <2>1. CASE sessions' = Closed(s) /\ Exchange(p, {})
    <3>1. {} \subseteq answer
      OBVIOUS
    <3> QED
      BY <2>1, <3>1 DEF Closed
  <2>2. CASE /\ ~Short(cur.last) /\ sessions' = [sessions EXCEPT ![s] = Sent(next)]
             /\ Exchange(p, {sent})
    <3>1. {sent} \subseteq answer
      BY <1>5, <2>2
    <3> HIDE DEF sent
    <3> QED
      BY <2>2, <3>1
  <2>3. CASE sessions' = Closed(s) /\ Exchange(p, {Error(s, Client)})
    <3>1. {Error(s, Client)} \subseteq answer
      BY <1>6
    <3> QED
      BY <2>3, <3>1 DEF Closed
  <2> QED
    BY <2>1, <2>2, <2>3 DEF ServeAck
<1>8. PICK out \in SUBSET answer : Exchange(p, out)
  BY <1>7
<1>9. /\ net' \subseteq net \cup out /\ dups' \in 0..MaxDups
      /\ dups' = dups \/ dups' = dups + 1
      /\ Request \in net' => Request \in net
  <2>1. Request \notin out
    BY <1>8, AddressFacts DEF Request, Packet
  <2> QED
    BY <1>0, <1>8, <2>1, ExchangeFacts
<1>10. /\ Within(Retries + dups)'
       /\ cpc = "await" => Within(Retries - tries + 1 + dups)'
  <2>1. /\ Within(Retries + dups)
        /\ cpc = "await" => Within(Retries - tries + 1 + dups)
    BY <1>0 DEF Counted
  <2>2. tries' = tries /\ opened' = opened /\ dups \in Nat
    BY <1>1, <1>2 DEF client
  <2>3. CASE dups' = dups
    BY <1>2, <1>9, <2>1, <2>2, <2>3 DEF Within
  <2>4. CASE dups' = dups + 1
    BY <1>2, <1>9, <2>1, <2>2, <2>4 DEF Within
  <2> QED
    BY <1>9, <2>3, <2>4
<1>11. Addressed' /\ Counted' /\ net' \subseteq Packets
  <2>1. out \subseteq Packets /\ \A a \in out : a.to = Client /\ a.from \in Sids
    BY <1>8
  <2> HIDE DEF answer
  <2> QED
    BY <1>1, <1>9, <1>10, <2>1, ServerFrame
<1>12. TypeOK'
  <2>1. sessions' \in [Sids -> Session]
    <3> HIDE DEF next
    <3> QED
      BY <1>2, <1>4, <1>7, NoSessionFacts
  <2> QED
    BY <1>0, <1>1, <1>9, <1>11, <2>1 DEF TypeOK, command, client
<1>13. PullInv'
  <2>1. \A q \in net' : q.kind = "data" => Ahead(q.block, q.chunk)
    BY <1>0, <1>1, <1>8, <1>9 DEF PullInv
  <2>2. \A i \in Sids : PullSession(sessions'[i])
    <3>1. PullSession(NoSession)
      BY NoSessionFacts DEF PullSession
    <3> HIDE DEF next
    <3> QED
      BY <1>0, <1>1, <1>2, <1>4, <1>7, <3>1 DEF PullInv
  <2> QED
    BY <1>0, <1>1, <2>1, <2>2
       DEF PullInv, PullSession, PullClient, Ahead, ReadAt, command, client
<1>14. PushInv'
  BY <1>1 DEF PushInv, command
<1> QED
  BY <1>11, <1>12, <1>13, <1>14 DEF IInv

\* A file that is written chunk after chunk stays the beginning of File.
LEMMA WrittenFacts ==
    ASSUME stored \in Seq(Chunks), \A i \in 1..Len(stored) : stored[i] = i,
           Len(stored) <= Full + 1,
           NEW off \in 0..Full, off <= Len(stored)
    PROVE  LET w == Written(off, off + 1) IN
           /\ w \in Seq(Chunks)
           /\ Len(stored) <= Len(w) /\ off + 1 <= Len(w) /\ Len(w) <= Full + 1
           /\ \A i \in 1..Len(w) : w[i] = i
  <1> DEFINE n == IF off < Len(stored) THEN Len(stored) ELSE off + 1
             w == Written(off, off + 1)
  <1>1. /\ n \in Nat /\ Len(stored) <= n /\ off + 1 <= n /\ n <= Full + 1
        /\ \/ n = Len(stored)
           \/ n = off + 1 /\ off = Len(stored)
    <2>1. Len(stored) \in Nat /\ off \in Nat /\ off <= Full
      BY WrapFacts
    <2> QED
      BY <2>1, WrapFacts
  <1>2. w = [i \in 1..n |-> IF i = off + 1 THEN off + 1 ELSE stored[i]]
    BY DEF Written
  <1>3. \A i \in 1..n : i = off + 1 \/ i \in 1..Len(stored)
    BY <1>1
  <1> HIDE DEF n, w
  <1>4. /\ DOMAIN w = 1..n /\ \A i \in 1..n : w[i] = i
        /\ \A i \in 1..n : i \in Chunks
    BY <1>1, <1>2, <1>3, WrapFacts DEF Chunks
  <1>5. w \in [1..n -> Chunks]
    BY <1>2, <1>4
  <1>6. w \in Seq(Chunks) /\ Len(w) = n
    BY <1>1, <1>5
  <1> QED
    BY <1>1, <1>4, <1>6 DEF w

\* A session of a push takes a block.
LEMMA ServeDataStep ==
    ASSUME IInv, NEW p \in net, NEW s \in Sids, ServeData(s, p)
    PROVE  IInv'
<1>0. TypeOK /\ Addressed /\ Counted /\ PullInv /\ PushInv
  BY DEF IInv
<1>1. /\ op = "push" /\ sessions[s].live /\ p # Request
      /\ UNCHANGED <<command, client, up, opened, resent>>
  BY AddressFacts DEF ServeData, Live, Request, Packet
<1> DEFINE cur == sessions[s]
           w == Written(cur.off, p.chunk)
           after == [cur EXCEPT !.block = p.block, !.off = cur.off + 1]
           answer == {q \in Packets : /\ q.to = Client /\ q.from = s /\ q.kind # "data"
                                      /\ q.kind = "ack" => q.block = p.block}
<1>2. /\ cur \in Session /\ stored \in Seq(Chunks)
      /\ sessions \in [Sids -> Session] /\ dups \in 0..MaxDups
      /\ Retries \in Nat /\ opened \in Nat /\ tries \in Nat
      /\ Len(stored) \in Nat /\ Len(stored) <= Full + 1
      /\ \A i \in 1..Len(stored) : stored[i] = i
      /\ cur.block = cur.off /\ cur.off \in 0..Full /\ cur.off <= Len(stored)
  <2>1. /\ cur \in Session /\ sessions \in [Sids -> Session] /\ dups \in 0..MaxDups
        /\ opened \in Nat /\ tries \in Nat /\ Retries \in Nat
        /\ stored \in Seq(Chunks) /\ Len(stored) \in Nat
    BY <1>0, TftpAssumption DEF TypeOK
  <2>2. PushSession(cur) /\ cur.live
    BY <1>0, <1>1 DEF PushInv
  <2>3. cur.off \in 0..Full + 1 /\ cur.off <= Full
    BY <2>1, <2>2 DEF Session, PushSession
  <2>4. Len(stored) <= Full + 1 /\ \A i \in 1..Len(stored) : stored[i] = i
    BY <1>0, <1>1 DEF PushInv
  <2> QED
    BY <2>1, <2>2, <2>3, <2>4, WrapFacts DEF PushSession
<1>3. IsData(p, cur.block) => p.block = cur.off + 1 /\ p.chunk = cur.off + 1
  <2>1. Succ(cur.block) = cur.off + 1
    BY <1>2, SuccFacts, WrapFacts
  <2> QED
    BY <1>0, <1>1, <2>1 DEF IsData, PushInv
<1>4. IsData(p, cur.block) =>
        /\ w \in Seq(Chunks) /\ Len(w) \in Nat
        /\ Len(stored) <= Len(w) /\ cur.off + 1 <= Len(w) /\ Len(w) <= Full + 1
        /\ \A i \in 1..Len(w) : w[i] = i
  BY <1>2, <1>3, WrittenFacts
<1>5. Ack(s, Client, p.block) \in answer /\ Error(s, Client) \in answer
  <2>1. p.block \in 0..Wrap - 1
    BY <1>0 DEF TypeOK, Packets
  <2>2. Ack(s, Client, p.block) \in Packets /\ Error(s, Client) \in Packets
    BY <2>1, PacketFacts, WrapFacts DEF Empty
  <2> QED
    BY <2>2 DEF Ack, Error, Packet
<1>6. /\ \E out \in SUBSET answer :
            /\ Exchange(p, out)
            /\ \/ \A q \in out : q.kind # "ack"
               \/ IsData(p, cur.block) /\ stored' = w
      /\ \/ stored' = stored
         \/ IsData(p, cur.block) /\ stored' = w
      /\ \/ sessions' = [sessions EXCEPT ![s] = NoSession]
         \/ /\ IsData(p, cur.block) /\ ~Short(p.chunk) /\ stored' = w
            /\ sessions' = [sessions EXCEPT ![s] = after]
  <2>1. CASE /\ IsData(p, cur.block)
             /\ stored' = w
             /\ sessions' = IF Short(p.chunk) THEN Closed(s)
                            ELSE [sessions EXCEPT ![s].block = p.block,
                                                  ![s].off = @ + 1]
             /\ Exchange(p, {Ack(s, Client, p.block)})
    <3>1. {Ack(s, Client, p.block)} \subseteq answer
      BY <1>5
    <3>3. \/ sessions' = [sessions EXCEPT ![s] = NoSession]
          \/ ~Short(p.chunk) /\ sessions' = [sessions EXCEPT ![s] = after]
      BY <1>2, <2>1 DEF Closed
    <3> HIDE DEF w, after, answer
    <3> QED
      BY <2>1, <3>1, <3>3
  <2>2. CASE /\ sessions' = Closed(s) /\ stored' = stored
             /\ Exchange(p, {Error(s, Client)})
    <3>1. {Error(s, Client)} \subseteq answer
      BY <1>5
    <3>2. \A q \in {Error(s, Client)} : q.kind # "ack"
      BY DEF Error, Packet
    <3> HIDE DEF w, after, answer
    <3> QED
      BY <2>2, <3>1, <3>2 DEF Closed
  <2>3. CASE /\ sessions' = Closed(s) /\ stored' = stored
             /\ Exchange(p, {})
    <3>1. {} \subseteq answer
      OBVIOUS
    <3> HIDE DEF w, after, answer
    <3> QED
      BY <2>3, <3>1 DEF Closed
  <2> QED
    BY <2>1, <2>2, <2>3 DEF ServeData
<1> HIDE DEF w
<1>7. PICK out \in SUBSET answer :
            /\ Exchange(p, out)
            /\ \/ \A q \in out : q.kind # "ack"
               \/ IsData(p, cur.block) /\ stored' = w
  BY <1>6
<1>8. /\ net' \subseteq net \cup out /\ dups' \in 0..MaxDups
      /\ dups' = dups \/ dups' = dups + 1
      /\ Request \in net' => Request \in net
  <2>1. Request \notin out
    BY <1>7, AddressFacts DEF Request, Packet
  <2> QED
    BY <1>0, <1>7, <2>1, ExchangeFacts
<1>9. /\ Within(Retries + dups)'
      /\ cpc = "await" => Within(Retries - tries + 1 + dups)'
  <2>1. /\ Within(Retries + dups)
        /\ cpc = "await" => Within(Retries - tries + 1 + dups)
    BY <1>0 DEF Counted
  <2>2. tries' = tries /\ opened' = opened /\ dups \in Nat
    BY <1>1, <1>2 DEF client
  <2>3. CASE dups' = dups
    BY <1>2, <1>8, <2>1, <2>2, <2>3 DEF Within
  <2>4. CASE dups' = dups + 1
    BY <1>2, <1>8, <2>1, <2>2, <2>4 DEF Within
  <2> QED
    BY <1>8, <2>3, <2>4
<1>10. Addressed' /\ Counted' /\ net' \subseteq Packets
  <2>1. out \subseteq Packets /\ \A a \in out : a.to = Client /\ a.from \in Sids
    BY <1>7
  <2> HIDE DEF answer
  <2> QED
    BY <1>1, <1>8, <1>9, <2>1, ServerFrame
<1> HIDE DEF answer
<1>11. PICK new : new = stored'
  OBVIOUS
<1>12. /\ new \in Seq(Chunks) /\ Len(new) \in Nat
       /\ Len(stored) <= Len(new) /\ Len(new) <= Full + 1
       /\ \A i \in 1..Len(new) : new[i] = i
       /\ IsData(p, cur.block) /\ new = w => cur.off + 1 <= Len(new)
  <2>1. CASE new = stored
    BY <1>2, <1>4, <2>1
  <2>2. CASE IsData(p, cur.block) /\ new = w
    BY <1>4, <2>2
  <2> QED
    BY <1>6, <1>11, <2>1, <2>2
\* A session, once the file is new.
<1> DEFINE Fits(session) == session.live => /\ session.block = session.off
                                            /\ session.off <= Full
                                            /\ session.off <= Len(new)
<1>13. ~Short(p.chunk) /\ IsData(p, cur.block) /\ new = w =>
          after \in Session /\ Fits(after)
  <2> SUFFICES ASSUME IsData(p, cur.block), ~Short(p.chunk), new = w
               PROVE  after \in Session /\ Fits(after)
    OBVIOUS
  <2>1. cur.off + 1 \in 1..Full /\ p.block = cur.off + 1 /\ cur.off + 1 <= Len(new)
    BY <1>3, <1>12 DEF Short
  <2>2. p.block \in 0..Wrap - 1 /\ cur.off + 1 \in 0..Full + 1
    BY <2>1, WrapFacts
  <2>3. after \in Session
    <3>1. 0 \in 0..Retries
      BY <1>2
    <3> QED
      BY <1>2, <2>2, <3>1, SessionFacts
  <2>4. after.block = cur.off + 1 /\ after.off = cur.off + 1
    BY <1>2, <2>1 DEF Session
  <2> QED
    BY <2>1, <2>3, <2>4
<1> HIDE DEF after, cur
<1>14. /\ sessions' \in [Sids -> Session]
       /\ \A i \in Sids : Fits(sessions'[i])
  <2>1. \A i \in Sids : Fits(sessions[i])
    <3> SUFFICES ASSUME NEW i \in Sids, sessions[i].live PROVE Fits(sessions[i])
      OBVIOUS
    <3>1. PushSession(sessions[i]) /\ sessions[i] \in Session
      BY <1>0, <1>1, <1>2 DEF PushInv
    <3>2. sessions[i].off \in Nat
      BY <3>1, WrapFacts DEF Session
    <3> QED
      BY <1>2, <1>12, <3>1, <3>2 DEF PushSession
  <2>2. Fits(NoSession)
    BY NoSessionFacts
  <2> HIDE DEF Fits
  <2>3. CASE sessions' = [sessions EXCEPT ![s] = NoSession]
    BY <1>2, <2>1, <2>2, <2>3, NoSessionFacts
  <2>4. CASE sessions' = [sessions EXCEPT ![s] = after] /\ after \in Session /\ Fits(after)
    BY <1>2, <2>1, <2>4
  <2> QED
    BY <1>6, <1>11, <1>13, <2>3, <2>4
<1>15. TypeOK'
  BY <1>0, <1>1, <1>8, <1>10, <1>11, <1>12, <1>14 DEF TypeOK, command, client
<1>16. PullInv'
  BY <1>1 DEF PullInv, command
<1>17. PushInv'
  <2>1. \A q \in net' : q.kind = "data" => q.block \in 1..Full + 1 /\ q.chunk = q.block
    <3>1. \A q \in out : q.kind # "data"
      BY <1>7 DEF answer
    <3> QED
      BY <1>0, <1>1, <1>8, <3>1 DEF PushInv
  <2>2. \A q \in net' : q.kind = "ack" => q.block <= Len(new)
    <3>1. ASSUME NEW q \in net, q.kind = "ack" PROVE q.block <= Len(new)
      <4>1. q.block <= Len(stored) /\ q.block \in Int
        BY <1>0, <1>1, <3>1, WrapFacts DEF PushInv, TypeOK, Packets
      <4> QED
        BY <1>2, <1>12, <4>1
    <3>2. ASSUME NEW q \in out, q.kind = "ack" PROVE q.block <= Len(new)
      <4>1. IsData(p, cur.block) /\ new = w
        BY <1>7, <1>11, <3>2
      <4>2. q.block = p.block
        BY <1>7, <3>2 DEF answer
      <4> QED
        BY <1>3, <1>12, <4>1, <4>2
    <3> QED
      BY <1>8, <3>1, <3>2
  <2>3. /\ size' <= Len(new) /\ got' = <<>>
        /\ cpc' = "await" => cblock' = 0 /\ size' = 0
        /\ cpc' = "data" => cblock' = size' + 1 /\ size' <= Full
    <3>1. PushClient /\ size \in Nat
      BY <1>0, <1>1, WrapFacts DEF PushInv, TypeOK
    <3>2. size <= Len(new)
      BY <1>2, <1>12, <3>1 DEF PushClient
    <3> QED
      BY <1>1, <3>1, <3>2 DEF PushClient, client
  <2>4. /\ \A q \in net' : q.kind = "ack" => q.block <= Len(stored')
        /\ size' <= Len(stored') /\ Len(stored') <= Full + 1
        /\ \A i \in 1..Len(stored') : stored'[i] = i
        /\ \A i \in Sids : sessions'[i].live =>
              /\ sessions'[i].block = sessions'[i].off
              /\ sessions'[i].off <= Full /\ sessions'[i].off <= Len(stored')
    BY <1>11, <1>12, <1>14, <2>2, <2>3
  <2> QED
    BY <2>1, <2>3, <2>4 DEF PushInv, PushSession, PushClient
<1> QED
  BY <1>10, <1>15, <1>16, <1>17 DEF IInv

\* A block that is sent again may come with a later chunk.
Late(block, chunk) == block \in 1..Full + 1 /\ (chunk = Empty \/ block <= chunk)
LateSession(session) ==
    session.live => /\ Late(session.block, session.last)
                    /\ IF session.last = Empty THEN ReadAt(session.off) = Empty
                                               ELSE session.last = session.off

\* What a time-out makes of a session, and the packet that it repeats.
LEMMA TimedOutFacts ==
    ASSUME IInv, NEW s \in Sids, s \in Live
    PROVE  /\ TimedOut(sessions[s]) \in Session
           /\ op = "pull" => LateSession(TimedOut(sessions[s]))
           /\ op = "push" => PushSession(TimedOut(sessions[s]))
           /\ TimedOut(sessions[s]).live => sessions[s].retry > 0
           /\ sessions[s].retry > 0 =>
                /\ Resend(s) \in Packets /\ Resend(s).to = Client /\ Resend(s).from = s
                /\ op = "pull" => /\ Resend(s).kind = "data"
                                  /\ Late(Resend(s).block, Resend(s).chunk)
                /\ op = "push" => Resend(s).kind = "ack" /\ Resend(s).block <= Len(stored)
<1> DEFINE cur == sessions[s]
<1>1. TypeOK /\ PullInv /\ PushInv
  BY DEF IInv
<1>2. /\ cur \in Session /\ cur.live /\ present \in BOOLEAN
      /\ op \in {"pull", "push"} /\ cur.off \in 0..Full + 1 /\ cur.retry \in 0..Retries
      /\ cur.block \in 0..Wrap - 1 /\ cur.last \in Chunks \cup {Empty}
  <2>1. cur \in Session /\ cur.live /\ present \in BOOLEAN /\ op \in {"pull", "push"}
    BY <1>1 DEF TypeOK, Live
  <2> HIDE DEF cur
  <2> QED
    BY <2>1 DEF Session
<1>3. op = "pull" => PullSession(cur)
  BY <1>1 DEF PullInv
<1>4. op = "push" => PushSession(cur)
  BY <1>1 DEF PushInv
<1>5. CASE cur.retry = 0
  <2>1. TimedOut(cur) = NoSession
    BY <1>5 DEF TimedOut
  <2> QED
    BY <1>5, <2>1, NoSessionFacts DEF LateSession, PushSession
<1>r. cur.retry > 0 => cur.retry - 1 \in 0..Retries
  BY <1>2, TftpAssumption
<1>6. CASE cur.retry > 0 /\ op = "pull"
  <2>1. cur.last \in Nat
    BY <1>2, WrapFacts DEF Chunks, Empty
  <2>2. Late(cur.block, ReadAt(cur.off))
    <3>1. ReadAt(cur.off) \in {Empty, cur.off + 1}
      BY <1>2, ReadFacts
    <3>2. CASE cur.last = Empty
      BY <1>2, <1>3, <1>6, <3>2 DEF PullSession, Ahead, Late
    <3>3. CASE cur.last # Empty
      <4>1. cur.last = cur.off /\ cur.block <= cur.last /\ cur.block \in 1..Full + 1
        BY <1>2, <1>3, <1>6, <3>3 DEF PullSession, Ahead
      <4>2. cur.block <= cur.off + 1
        BY <1>2, <4>1
      <4> QED
        BY <3>1, <4>1, <4>2 DEF Late
    <3> QED
      BY <3>2, <3>3
  <2>3. Resend(s) = Data(s, Client, cur.block, ReadAt(cur.off))
    BY <1>6 DEF Resend
  <2>4. ReadAt(cur.off) \in Chunks \cup {Empty}
    BY <1>2, ReadFacts
  <2>5. Resend(s) \in Packets
    BY <1>2, <2>3, <2>4, PacketFacts
  <2> DEFINE t == Sent(cur)
  <2>6. /\ t \in Session /\ t.block = cur.block /\ t.retry = cur.retry
        /\ t.last = ReadAt(cur.off) /\ t.off = ReadOn(cur.off)
    BY <1>2, SentFacts
  <2>7. TimedOut(cur) = [t EXCEPT !.retry = cur.retry - 1]
    BY <1>2, <1>6, <2>6 DEF TimedOut
  <2> HIDE DEF t
  <2>8. /\ TimedOut(cur) \in Session /\ TimedOut(cur).block = cur.block
        /\ TimedOut(cur).last = ReadAt(cur.off) /\ TimedOut(cur).off = ReadOn(cur.off)
    <3>1. 0 \in 0..Wrap - 1 /\ 0 \in 0..Full + 1
      BY WrapFacts
    <3> DEFINE u == [t EXCEPT !.retry = cur.retry - 1]
    <3>2. u \in Session
      BY <1>r, <1>6, <2>6, <3>1, SessionFacts
    <3>3. u.block = t.block /\ u.last = t.last /\ u.off = t.off
      BY <2>6 DEF Session
    <3> QED
      BY <2>6, <2>7, <3>2, <3>3
  <2>9. LateSession(TimedOut(cur))
    BY <1>2, <2>2, <2>8, ReadFacts DEF LateSession
  <2> QED
    BY <1>6, <2>2, <2>3, <2>5, <2>8, <2>9 DEF Data, Packet
<1>7. CASE cur.retry > 0 /\ op = "push"
  <2>1. TimedOut(cur) = [cur EXCEPT !.retry = cur.retry - 1]
    BY <1>2, <1>7 DEF TimedOut
  <2>3. TimedOut(cur) \in Session /\ PushSession(TimedOut(cur))
    <3>1. 0 \in 0..Wrap - 1 /\ 0 \in 0..Full + 1
      BY WrapFacts
    <3>2. [cur EXCEPT !.retry = cur.retry - 1] \in Session
      BY <1>2, <1>r, <1>7, <3>1, SessionFacts
    <3>3. PushSession([cur EXCEPT !.retry = cur.retry - 1])
      BY <1>2, <1>4, <1>7 DEF PushSession, Session
    <3> QED
      BY <2>1, <3>2, <3>3
  <2>4. Resend(s) = Ack(s, Client, cur.block)
    BY <1>7 DEF Resend
  <2>5. Resend(s) \in Packets
    BY <1>2, <2>4, PacketFacts, WrapFacts DEF Empty
  <2>6. cur.block <= Len(stored)
    BY <1>2, <1>4, <1>7 DEF PushSession
  <2> QED
    BY <1>7, <2>3, <2>4, <2>5, <2>6 DEF Ack, Packet
<1> QED
  BY <1>2, <1>5, <1>6, <1>7

\* A time-out of the server: every session in turn.
LEMMA ServerTimeoutStep == IInv /\ ServerTimeout => IInv'
<1> SUFFICES ASSUME IInv, ServerTimeout PROVE IInv'
  OBVIOUS
<1>0. TypeOK /\ Addressed /\ Counted /\ PullInv /\ PushInv
  BY DEF IInv
<1> DEFINE again == {s \in Live : sessions[s].retry > 0}
           out == {Resend(s) : s \in again}
           after(s) == IF s \in Live THEN TimedOut(sessions[s]) ELSE NoSession
<1>1. /\ UNCHANGED <<dups, command, client, up, opened, stored>>
      /\ net' = net \cup out /\ again \subseteq Sids /\ again \subseteq Live
      /\ resent' = (resent \/ (op = "pull" /\ again # {}))
      /\ sessions' = [s \in Sids |-> after(s)]
  BY DEF ServerTimeout, Live
<1>2. \A s \in Sids : /\ after(s) \in Session
                      /\ op = "pull" => LateSession(after(s))
                      /\ op = "push" => PushSession(after(s))
                      /\ after(s).live => s \in again
  <2> SUFFICES ASSUME NEW s \in Sids
               PROVE  /\ after(s) \in Session
                      /\ op = "pull" => LateSession(after(s))
                      /\ op = "push" => PushSession(after(s))
                      /\ after(s).live => s \in again
    OBVIOUS
  <2>1. CASE s \in Live
    BY <2>1, TimedOutFacts
  <2>2. CASE s \notin Live
    BY <2>2, NoSessionFacts DEF LateSession, PushSession
  <2> QED
    BY <2>1, <2>2
<1> HIDE DEF after
<1>3. \A q \in out : /\ q \in Packets /\ q.to = Client /\ q.from \in Sids
                     /\ op = "pull" => q.kind = "data" /\ Late(q.block, q.chunk)
                     /\ op = "push" => q.kind = "ack" /\ q.block <= Len(stored)
  BY <1>1, TimedOutFacts
<1>4. op = "pull" /\ out # {} => resent' = TRUE
  BY <1>1
<1>5. Request \in net' => Request \in net
  BY <1>1, <1>3, AddressFacts DEF Request, Packet
<1>6. Addressed' /\ Counted' /\ net' \subseteq Packets
  <2>1. /\ dups' \in 0..MaxDups /\ dups' = dups /\ tries' = tries /\ opened' = opened
    BY <1>0, <1>1 DEF TypeOK, client
  <2>2. /\ Within(Retries + dups)'
        /\ cpc = "await" => Within(Retries - tries + 1 + dups)'
    BY <1>0, <1>5, <2>1 DEF Counted, Within
  <2> HIDE DEF out
  <2>3. net' \subseteq net \cup out /\ out \subseteq Packets
        /\ \A a \in out : a.to = Client /\ a.from \in Sids
    BY <1>1, <1>3
  <2> QED
    BY <1>1, <2>1, <2>2, <2>3, ServerFrame
<1>7. TypeOK'
  <2>1. sessions' \in [Sids -> Session]
    BY <1>1, <1>2
  <2>2. resent' \in BOOLEAN
    BY <1>0, <1>1 DEF TypeOK
  <2> QED
    BY <1>0, <1>1, <1>6, <2>1, <2>2 DEF TypeOK, command, client
<1>8. PullInv'
  <2> SUFFICES ASSUME op = "pull" PROVE PullInv'
    BY <1>1 DEF PullInv, command
  <2>1. resent => resent' = TRUE
    BY <1>1
  <2>2. \A q \in net' : q.kind = "data" => Ahead(q.block, q.chunk)'
    <3>1. ASSUME NEW q \in net, q.kind = "data" PROVE Ahead(q.block, q.chunk)'
      <4>1. Ahead(q.block, q.chunk)
        BY <1>0, <3>1 DEF PullInv
      <4> QED
        BY <1>1, <2>1, <4>1 DEF Ahead, command
    <3>2. ASSUME NEW q \in out PROVE Ahead(q.block, q.chunk)'
      BY <1>3, <1>4, <3>2 DEF Ahead, Late
    <3> QED
      BY <1>1, <3>1, <3>2
  <2>3. ASSUME NEW s \in Sids, sessions'[s].live
        PROVE  /\ sessions'[s].block \in 1..Full + 1
               /\ sessions'[s].last = Empty \/ sessions'[s].block <= sessions'[s].last
               /\ ~resent' => sessions'[s].last = sessions'[s].block
               /\ IF sessions'[s].last = Empty THEN ReadAt(sessions'[s].off) = Empty
                                               ELSE sessions'[s].last = sessions'[s].off
    <3>1. sessions'[s] = after(s)
      BY <1>1
    <3>2. s \in again /\ LateSession(after(s))
      BY <1>2, <2>3, <3>1
    <3>3. resent' = TRUE
      BY <1>1, <3>2
    <3> QED
      BY <2>3, <3>1, <3>2, <3>3 DEF LateSession, Late
  <2>4. PullClient'
    BY <1>0, <1>1, <2>1 DEF PullInv, PullClient, command, client
  <2> QED
    BY <1>0, <1>1, <2>2, <2>3, <2>4 DEF PullInv, PullSession, Ahead, ReadAt, command
<1>9. PushInv'
  <2> SUFFICES ASSUME op = "push" PROVE PushInv'
    BY <1>1 DEF PushInv, command
  <2>1. \A q \in net' : q.kind = "data" => q.block \in 1..Full + 1 /\ q.chunk = q.block
    BY <1>0, <1>1, <1>3 DEF PushInv
  <2>2. \A q \in net' : q.kind = "ack" => q.block <= Len(stored)
    BY <1>0, <1>1, <1>3 DEF PushInv
  <2>3. \A s \in Sids : PushSession(sessions'[s])
    BY <1>1, <1>2
  <2> QED
    BY <1>0, <1>1, <2>1, <2>2, <2>3 DEF PushInv, PushSession, PushClient, command, client
<1> QED
  BY <1>6, <1>7, <1>8, <1>9 DEF IInv

\* The server is stopped.
LEMMA ServerStopStep == IInv /\ ServerStop => IInv'
<1> SUFFICES ASSUME IInv, ServerStop PROVE IInv'
  OBVIOUS
<1>0. TypeOK /\ Addressed /\ Counted /\ PullInv /\ PushInv
  BY DEF IInv
<1>1. /\ UNCHANGED <<network, command, client, opened, stored, resent>>
      /\ up' = FALSE /\ sessions' = [s \in Sids |-> NoSession]
  BY DEF ServerStop
<1>2. TypeOK'
  BY <1>0, <1>1, NoSessionFacts DEF TypeOK, network, command, client
<1>3. Addressed' /\ Counted'
  BY <1>0, <1>1 DEF Addressed, Counted, Within, network, client
<1>4. \A s \in Sids : ~sessions'[s].live
  BY <1>1, NoSessionFacts
<1>5. PullInv'
  BY <1>0, <1>1, <1>4
     DEF PullInv, PullSession, PullClient, Ahead, network, command, client
<1>6. PushInv'
  BY <1>0, <1>1, <1>4 DEF PushInv, PushSession, PushClient, network, command, client
<1> QED
  BY <1>2, <1>3, <1>5, <1>6 DEF IInv

----------------------------------------------------------------------------
(* The theorems                                                             *)

\* The invariant holds in every reachable state.
THEOREM TftpInvariant == Spec => []IInv
<1>1. IInv /\ [Next]_vars => IInv'
  <2> SUFFICES ASSUME IInv, [Next]_vars PROVE IInv'
    OBVIOUS
  <2>1. ASSUME NEW p \in net, PullData(p) PROVE IInv'
    BY <2>1, PullDataStep
  <2>2. ASSUME NEW p \in net, PushAck(p) PROVE IInv'
    BY <2>2, PushAckStep
  <2>3. ASSUME NEW p \in net, Accept(p) PROVE IInv'
    BY <2>3, AcceptStep
  <2>4. ASSUME NEW p \in net, NEW s \in Sids, ServeAck(s, p) PROVE IInv'
    BY <2>4, ServeAckStep
  <2>5. ASSUME NEW p \in net, NEW s \in Sids, ServeData(s, p) PROVE IInv'
    BY <2>5, ServeDataStep
  <2>6. CASE UNCHANGED vars
    BY <2>6 DEF IInv, TypeOK, Addressed, Counted, Within, PullInv, PullSession,
                PullClient, PushInv, PushSession, PushClient, Ahead, ReadAt,
                vars, network, command, client, server
  <2> QED
    BY <2>1, <2>2, <2>3, <2>4, <2>5, <2>6, ClientTimeoutStep,
       ServerTimeoutStep, ServerStopStep DEF Next
<1> QED
  BY InitIInv, <1>1, PTL DEF Spec

\* Every variable stays in its type: no session beyond the sockets that
\* requests and their repetitions can open, no retry below zero, no block
\* outside a uint16_t.
THEOREM TypeCorrect == Spec => []TypeOK
<1>1. IInv => TypeOK
  BY DEF IInv
<1> QED
  BY TftpInvariant, <1>1, PTL

\* A pulled file arrives chunk for chunk, and is complete exactly when a
\* short block has come, as long as the server never repeats a block.
THEOREM PullIsExact == Spec => []PulledExact
<1>1. IInv => PulledExact
  <2> SUFFICES ASSUME IInv, op = "pull", present, ~resent
               PROVE  /\ got = SubSeq(File, 1, Len(got))
                      /\ Len(got) = Full + 1 <=> (got # <<>> /\ Short(got[Len(got)]))
    BY DEF PulledExact
  <2>1. /\ got \in Seq(Chunks \cup {Empty}) /\ Len(got) \in 0..Full + 1
        /\ \A i \in 1..Len(got) : got[i] = i /\ Full \in Nat
    BY WrapFacts DEF IInv, TypeOK, PullInv, PullClient
  <2>2. got = SubSeq(File, 1, Len(got))
    <3>1. /\ File \in Seq(Nat) /\ Len(File) = Full + 1
          /\ \A i \in 1..Full + 1 : File[i] = i
      BY WrapFacts DEF File
    <3>2. SubSeq(File, 1, Len(got)) = [i \in 1..Len(got) |-> File[i]]
      BY <2>1, <3>1
    <3> QED
      BY <2>1, <3>1, <3>2
  <2>3. Len(got) = Full + 1 <=> (got # <<>> /\ Short(got[Len(got)]))
    <3>1. CASE Len(got) = 0
      BY <2>1, <3>1, WrapFacts
    <3>2. CASE Len(got) \in 1..Full + 1
      BY <2>1, <3>2, WrapFacts DEF Short
    <3> QED
      BY <2>1, <3>1, <3>2, WrapFacts
  <2> QED
    BY <2>2, <2>3
<1> QED
  BY TftpInvariant, <1>1, PTL

\* What is stored of a pushed file is always the beginning of it, and all of
\* it when the client reports its full size and no error, whatever is lost,
\* repeated or late and however many sessions write to the file.
THEOREM PushIsExact == Spec => []PushedExact
<1>1. IInv => PushedExact
  <2> SUFFICES ASSUME IInv, op = "push"
               PROVE  /\ stored = SubSeq(File, 1, Len(stored))
                      /\ err = "ok" /\ size = Full + 1 => stored = File
    BY DEF PushedExact
  <2>1. /\ stored \in Seq(Chunks) /\ Len(stored) \in 0..Full + 1
        /\ \A i \in 1..Len(stored) : stored[i] = i
        /\ Full \in Nat /\ size <= Len(stored)
    BY WrapFacts DEF IInv, TypeOK, PushInv, PushClient
  <2>2. /\ File \in Seq(Nat) /\ Len(File) = Full + 1
        /\ \A i \in 1..Full + 1 : File[i] = i
    BY WrapFacts DEF File
  <2>3. stored = SubSeq(File, 1, Len(stored))
    <3>1. SubSeq(File, 1, Len(stored)) = [i \in 1..Len(stored) |-> File[i]]
      BY <2>1, <2>2
    <3> QED
      BY <2>1, <2>2, <3>1
  <2>4. size = Full + 1 => stored = File
    <3> SUFFICES ASSUME size = Full + 1 PROVE stored = File
      OBVIOUS
    <3>1. Len(stored) = Full + 1
      BY <2>1
    <3> QED
      BY <2>1, <2>2, <3>1 DEF File
  <2> QED
    BY <2>3, <2>4
<1> QED
  BY TftpInvariant, <1>1, PTL

----------------------------------------------------------------------------
(* What a transfer implements                                               *)

\* What the invariant says of a command that has not ended.
LEMMA Running ==
    ASSUME IInv, cpc # "done"
    PROVE  /\ size \in 0..Full /\ Report = "none" /\ cblock \in 0..Full + 1
           /\ op = "pull" => size = Len(got) /\ cblock = size
           /\ op = "push" => cblock = IF cpc = "data" THEN size + 1 ELSE size
           /\ cpc = "await" => size = 0
<1>1. cpc \in {"await", "data"} /\ size \in 0..Full + 1 /\ op \in {"pull", "push"}
  BY DEF IInv, TypeOK
<1>2. Report = "none"
  BY DEF Report
<1>3. CASE op = "pull"
  BY <1>1, <1>2, <1>3, WrapFacts DEF IInv, PullInv, PullClient
<1>4. CASE op = "push"
  BY <1>1, <1>2, <1>4, WrapFacts DEF IInv, PushInv, PushClient
<1> QED
  BY <1>1, <1>3, <1>4

\* A command that ends without another piece has given up.
LEMMA Ends ==
    ASSUME cpc # "done", cpc' = "done", UNCHANGED <<Copy, size, Sound>>
    PROVE  Delivery!GiveUp
<1>1. Report = "none" /\ Report' \in {"ok", "failed"}
  BY DEF Report
<1> QED
  BY <1>1 DEF Delivery!GiveUp

\* A block that the client takes is the next piece of its copy.
LEMMA PullReceives ==
    ASSUME IInv, NEW p \in net, PullData(p)
    PROVE  Delivery!Next
<1>1. op = "pull" /\ cpc # "done" /\ UNCHANGED <<op, present, stored, resent>>
  BY DEF PullData, command, server
<1>2. Copy = got /\ Copy' = got' /\ Sound' = Sound /\ (Sound => present /\ ~resent)
  BY <1>1 DEF Copy, Sound
<1>3. /\ size \in 0..Full /\ Report = "none" /\ Full \in Nat
      /\ size = Len(got) /\ cblock = size
      /\ got \in Seq(Chunks \cup {Empty}) /\ p.chunk \in Chunks \cup {Empty}
  BY <1>1, Running, WrapFacts DEF IInv, TypeOK, Packets
<1>4. CASE UNCHANGED <<size, got>> /\ cpc' = "done"
  BY <1>1, <1>2, <1>4, Ends DEF Delivery!Next
<1>5. CASE /\ IsData(p, cblock)
           /\ got' = Append(got, p.chunk) /\ size' = size + 1
           /\ IF Short(p.chunk) THEN cpc' = "done" /\ err' = "ok"
                                ELSE cpc' = "data"
  <2>1. p.block = size + 1 /\ Ahead(size + 1, p.chunk)
    <3>1. p.block = size + 1
      BY <1>3, <1>5, SuccFacts, WrapFacts DEF IsData
    <3> QED
      BY <1>1, <1>5, <3>1 DEF IsData, IInv, PullInv
  <2>2. Sound => p.chunk = Len(Copy) + 1
    BY <1>2, <1>3, <2>1 DEF Ahead
  <2>3. Delivery!Store
    <3>1. p.chunk \in IF Sound THEN {Len(Copy) + 1} ELSE Chunks \cup {Empty}
      BY <1>3, <2>2
    <3>2. Len(Copy) <= Full /\ Copy' = Append(Copy, p.chunk) /\ Sound' = Sound
      BY <1>2, <1>3, <1>5
    <3> QED
      BY <3>1, <3>2 DEF Delivery!Store
  <2>4. size' <= Len(Copy')
    BY <1>2, <1>3, <1>5
  <2>5. CASE Short(p.chunk)
    <3>1. Report' = "ok"
      BY <1>5, <2>5 DEF Report
    <3>2. Sound => size' = Full + 1
      BY <1>2, <1>3, <1>5, <2>2, <2>5 DEF Short
    <3> QED
      BY <1>3, <1>5, <2>3, <2>4, <3>1, <3>2
         DEF Delivery!Count, Delivery!Receive, Delivery!Next
  <2>6. CASE ~Short(p.chunk)
    <3>1. Report' = "none"
      BY <1>5, <2>6 DEF Report
    <3>2. size' <= Full
      BY <1>3, <1>5, <2>1, <2>6 DEF Ahead, Short, Empty
    <3> QED
      BY <1>3, <1>5, <2>3, <2>4, <3>1, <3>2
         DEF Delivery!Count, Delivery!Receive, Delivery!Next
  <2> QED
    BY <2>5, <2>6
<1> QED
  BY <1>4, <1>5 DEF PullData, Fail

\* An acknowledgement that the client takes is of a piece in the copy; the first
\* one acknowledges the request only.
LEMMA PushCounts ==
    ASSUME IInv, NEW p \in net, PushAck(p)
    PROVE  [Delivery!Next]_Delivery!vars
<1>1. op = "push" /\ cpc # "done" /\ UNCHANGED <<op, present, stored, resent>>
  BY DEF PushAck, command, server
<1>2. Copy = stored /\ Copy' = stored /\ Sound' = Sound
  BY <1>1 DEF Copy, Sound
<1> DEFINE acked == IF cpc = "data" THEN size + 1 ELSE size
<1>3. /\ size \in 0..Full /\ Report = "none" /\ Full \in Nat
      /\ cblock = acked /\ (cpc # "data" => acked = 0) /\ acked \in 0..Full + 1
  BY <1>1, Running, WrapFacts DEF IInv, TypeOK
<1>4. CASE UNCHANGED size /\ cpc' = "done"
  BY <1>1, <1>2, <1>4, Ends DEF Delivery!Next
<1>5. CASE /\ IsAck(p, cblock) /\ size' = acked
           /\ IF acked = Full + 1 THEN cpc' = "done" /\ err' = "ok"
                                  ELSE cpc' = "data"
  <2>1. Report' = IF acked = Full + 1 THEN "ok" ELSE "none"
    BY <1>5 DEF Report
  <2>2. CASE cpc # "data"
    BY <1>2, <1>3, <1>5, <2>1, <2>2 DEF Delivery!vars
  <2>3. CASE cpc = "data"
    <3>1. size' = size + 1
      BY <1>5, <2>3
    <3>2. size' <= Len(Copy')
      BY <1>1, <1>2, <1>3, <1>5, <2>3 DEF IsAck, IInv, PushInv
    <3>3. size' = Full + 1 \/ size' <= Full
      BY <1>3, <3>1
    <3>4. Delivery!Count
      BY <1>3, <1>5, <2>1, <3>1, <3>2, <3>3 DEF Delivery!Count
    <3> QED
      BY <1>2, <3>4 DEF Delivery!Acknowledge, Delivery!Next
  <2> QED
    BY <2>2, <2>3
<1> QED
  BY <1>4, <1>5 DEF PushAck, Fail

\* A write of the next chunk, by a session that is not ahead of the file, adds it
\* or writes what is there.
LEMMA WrittenGrows ==
    ASSUME stored \in Seq(Chunks), \A i \in 1..Len(stored) : stored[i] = i,
           NEW off \in 0..Full, off <= Len(stored)
    PROVE  \/ Written(off, off + 1) = stored
           \/ off = Len(stored) /\ Written(off, off + 1) = Append(stored, off + 1)
<1>1. Len(stored) \in Nat /\ off \in Nat
  BY WrapFacts
<1>2. CASE off < Len(stored)
  <2>1. Written(off, off + 1) = [i \in 1..Len(stored) |->
          IF i = off + 1 THEN off + 1 ELSE stored[i]]
    BY <1>2 DEF Written
  <2>2. Written(off, off + 1) = [i \in 1..Len(stored) |-> stored[i]]
    BY <2>1
  <2> QED
    BY <2>2
<1>3. CASE off = Len(stored)
  <2>1. Written(off, off + 1) = [i \in 1..off + 1 |->
          IF i = off + 1 THEN off + 1 ELSE stored[i]]
    BY <1>3 DEF Written
  <2>2. Append(stored, off + 1) = [i \in 1..off + 1 |->
          IF i = off + 1 THEN off + 1 ELSE stored[i]]
    BY <1>1, <1>3
  <2> QED
    BY <1>3, <2>1, <2>2
<1> QED
  BY <1>1, <1>2, <1>3

\* A session of a push adds the next piece, or nothing.
LEMMA ServeDelivers ==
    ASSUME IInv, NEW p \in net, NEW s \in Sids, ServeData(s, p)
    PROVE  [Delivery!Next]_Delivery!vars
<1>1. op = "push" /\ sessions[s].live /\ UNCHANGED <<op, present, resent, client>>
  BY DEF ServeData, Live, command
<1>2. /\ Copy = stored /\ Copy' = stored' /\ Sound /\ Sound'
      /\ UNCHANGED <<size, Report>>
  BY <1>1 DEF Copy, Sound, Report, client
<1>3. CASE stored' = stored
  BY <1>2, <1>3 DEF Delivery!vars
<1>4. CASE IsData(p, sessions[s].block)
           /\ stored' = Written(sessions[s].off, p.chunk)
  <2> DEFINE off == sessions[s].off
  <2>1. /\ off = sessions[s].block /\ off \in 0..Full /\ off <= Len(stored)
        /\ stored \in Seq(Chunks) /\ \A i \in 1..Len(stored) : stored[i] = i
    <3>1. PushSession(sessions[s]) /\ \A i \in 1..Len(stored) : stored[i] = i
      BY <1>1 DEF IInv, PushInv
    <3>2. sessions[s] \in Session /\ stored \in Seq(Chunks)
      BY DEF IInv, TypeOK
    <3> QED
      BY <1>1, <3>1, <3>2, WrapFacts DEF PushSession, Session
  <2>2. p.chunk = off + 1
    <3>1. Succ(sessions[s].block) = off + 1
      BY <2>1, SuccFacts, WrapFacts
    <3> QED
      BY <1>1, <1>4, <3>1 DEF IsData, IInv, PushInv
  <2> HIDE DEF off
  <2>3. \/ stored' = stored
        \/ off = Len(stored) /\ stored' = Append(stored, off + 1)
    BY <1>4, <2>1, <2>2, WrittenGrows DEF off
  <2>4. CASE off = Len(stored) /\ stored' = Append(stored, off + 1)
    <3>1. Len(Copy) <= Full
      BY <1>2, <2>1, <2>4
    <3>2. Delivery!Store
      BY <1>2, <2>4, <3>1 DEF Delivery!Store
    <3> QED
      BY <1>2, <3>2 DEF Delivery!Deliver, Delivery!Next
  <2> QED
    BY <1>3, <2>3, <2>4
<1> QED
  BY <1>3, <1>4 DEF ServeData

\* Every step delivers, counts, ends or spoils the transfer, or shows nothing.
LEMMA Delivers ==
    ASSUME IInv, [Next]_vars
    PROVE  [Delivery!Next]_Delivery!vars
<1>1. ASSUME UNCHANGED <<op, present, cpc, err, size, got, stored, resent>>
      PROVE  [Delivery!Next]_Delivery!vars
  BY <1>1 DEF Delivery!vars, Copy, Report, Sound
<1>2. CASE ClientTimeout
  <2>1. UNCHANGED <<op, present, size, got, stored, resent>> /\ cpc # "done"
    BY <1>2 DEF ClientTimeout, command, server
  <2>2. cpc' = "done" \/ UNCHANGED <<cpc, err>>
    BY <1>2 DEF ClientTimeout
  <2>3. UNCHANGED <<Copy, size, Sound>>
    BY <2>1 DEF Copy, Sound
  <2> QED
    BY <1>1, <2>1, <2>2, <2>3, Ends DEF Delivery!Next
<1>3. CASE ServerTimeout
  <2>1. UNCHANGED <<op, present, cpc, err, size, got, stored>>
    BY <1>3 DEF ServerTimeout, command, client
  <2>2. resent' = resent \/ (op = "pull" /\ resent' = TRUE)
    BY <1>3 DEF ServerTimeout, IInv, TypeOK
  <2>3. Copy' = Copy /\ Report' = Report
    BY <2>1 DEF Copy, Report
  <2>4. CASE op = "pull" /\ resent' = TRUE
    <3>1. Sound' = FALSE /\ Sound \in BOOLEAN
      BY <2>1, <2>4 DEF Sound
    <3> QED
      BY <2>1, <2>3, <3>1 DEF Delivery!Spoil, Delivery!Next, Delivery!vars
  <2> QED
    BY <1>1, <2>1, <2>2, <2>4
<1>4. ASSUME NEW p \in net, Accept(p) PROVE [Delivery!Next]_Delivery!vars
  BY <1>1, <1>4 DEF Accept, command, client
<1>5. ASSUME NEW s \in Sids, NEW p \in net, ServeAck(s, p)
      PROVE  [Delivery!Next]_Delivery!vars
  BY <1>1, <1>5 DEF ServeAck, command, client
<1>6. CASE ServerStop \/ UNCHANGED vars
  BY <1>1, <1>6 DEF ServerStop, command, client, server, vars
<1> QED
  BY <1>2, <1>3, <1>4, <1>5, <1>6, PullReceives, PushCounts, ServeDelivers
     DEF Next

\* Seen from outside, a transfer is one copy that only grows, in the order of
\* the file until the server sends a block again, and a count of what is in it:
\* no time-out, repeated request, second session or late packet takes back,
\* replaces or double-counts a chunk.
THEOREM ImplementsDelivery == Spec => DeliverySpec
<1>1. Init => Delivery!Init
  <2> SUFFICES ASSUME Init PROVE Delivery!Init
    OBVIOUS
  <2>1. Copy = <<>> /\ size = 0 /\ Report = "none" /\ Sound \in BOOLEAN
    BY DEF Init, Copy, Report, Sound
  <2> QED
    BY <2>1 DEF Delivery!Init
<1>2. IInv /\ [Next]_vars => [Delivery!Next]_Delivery!vars
  BY Delivers
<1> QED
  BY <1>1, <1>2, TftpInvariant, PTL DEF Spec, DeliverySpec, Delivery!Spec
=============================================================================
