---- MODULE TcpServerEcho ----
(***************************************************************************)
(* What the server of TcpServer does to the bytes of a stream: rx and tx   *)
(* are single buffers, the read is re-armed while the write of the last    *)
(* message may still be in progress, and the kernel reads tx when it       *)
(* performs a send, not when async_write is called.                        *)
(***************************************************************************)
EXTENDS TcpServer, SequencesExt

\* The bytes a peer has sent so far
Stream(s) == [i \in 1..conn[s].sent |-> i]

\* The bytes that the writes of a queue have still to send
RemainingOf(ws) ==
    LET sum[i \in 0..Len(ws)] ==
          IF i = 0 THEN 0 ELSE sum[i - 1] + Remaining(ws[i])
    IN  sum[Len(ws)]

\* The example of impl.md is an echo: what a peer reads is what it sent.
Echo == \A s \in Slots : IsPrefix(conn[s].out, Stream(s))

\* The echo is exact as long as no data was handled while an earlier write was
\* still in progress: overwriting tx is the only way it goes wrong.
EchoUnlessOverlapped ==
    \A s \in Slots : ses[s].overlap \/ IsPrefix(conn[s].out, Stream(s))

\* As long as the socket is open every byte received is accounted for: sent back,
\* in a write that will send it, or in rx.  Corrupted the echo may be, it has
\* the right length.
EchoLengthConserved ==
    \A s \in Slots :
        LET r == ses[s]
        IN  r.sock = "open" =>
              conn[s].sent = Len(conn[s].inb) + Len(r.got) + Len(r.rx)
                             + RemainingOf(r.wq) + RemainingOf(r.wdone)
                             + Len(conn[s].out)
====
