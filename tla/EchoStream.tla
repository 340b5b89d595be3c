---- MODULE EchoStream ----
(***************************************************************************)
(* What an echo server promises to the peers of a set of connections: a    *)
(* peer reads a prefix of what it sent, and all of it unless its           *)
(* connection goes down.  How the bytes are read, buffered and written is  *)
(* left open.                                                              *)
(***************************************************************************)
EXTENDS Integers, Sequences

CONSTANTS Clients,      \* the connections
          MaxBytes      \* bound: bytes sent on one connection

VARIABLES in,   \* in[c]: what was sent to the server
          out,  \* out[c]: what the server sent back
          up    \* up[c]: the connection has not gone down

echoVars == <<in, out, up>>

EchoTypeOK ==
    /\ in \in [Clients -> Seq(1..MaxBytes)]
    /\ out \in [Clients -> Seq(1..MaxBytes)]
    /\ up \in [Clients -> BOOLEAN]

EchoInit ==
    /\ in = [c \in Clients |-> << >>]
    /\ out = [c \in Clients |-> << >>]
    /\ up = [c \in Clients |-> TRUE]

Send(c) ==
    /\ Len(in[c]) < MaxBytes
    /\ \E b \in 1..MaxBytes : in' = [in EXCEPT ![c] = Append(@, b)]
    /\ UNCHANGED <<out, up>>

\* Some of the bytes that are due are sent back.
Echo(c) ==
    /\ up[c]
    /\ \E n \in (Len(out[c]) + 1)..Len(in[c]) :
         out' = [out EXCEPT ![c] = SubSeq(in[c], 1, n)]
    /\ UNCHANGED <<in, up>>

GoDown(c) ==
    /\ up[c]
    /\ up' = [up EXCEPT ![c] = FALSE]
    /\ UNCHANGED <<in, out>>

EchoNext == \E c \in Clients : Send(c) \/ Echo(c) \/ GoDown(c)

EchoSpec ==
    EchoInit /\ [][EchoNext]_echoVars /\ \A c \in Clients : WF_echoVars(Echo(c))

====
