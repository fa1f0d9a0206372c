------------------------------- MODULE InOrder -------------------------------
(***************************************************************************)
(* What the chain from a sender to each of its receivers promises, however *)
(* many connections, buffers and threads it leads through: a receiver has  *)
(* taken, in their order and each once, the first of the things that were  *)
(* sent to it.  A receiver may start over, but then has nothing waiting.   *)
(***************************************************************************)
EXTENDS Sequences, Naturals

CONSTANTS Receiver, Thing

VARIABLES sent,      \* sent[r]: what was sent to r since it started (over)
          received   \* received[r]: what r has taken of it

Init ==
    /\ sent = [r \in Receiver |-> <<>>]
    /\ received = [r \in Receiver |-> <<>>]

Send(r) ==
    /\ \E thing \in Thing : sent'[r] = Append(sent[r], thing)
    /\ received'[r] = received[r]

Receive(r) ==
    /\ Len(received[r]) < Len(sent[r])
    /\ received'[r] = Append(received[r], sent[r][Len(received[r]) + 1])
    /\ sent'[r] = sent[r]

StartOver(r) == sent'[r] = <<>> /\ received'[r] = <<>>

Stay(r) == sent'[r] = sent[r] /\ received'[r] = received[r]

\* One message may go to many receivers at once.
Next == \A r \in Receiver : Send(r) \/ Receive(r) \/ StartOver(r) \/ Stay(r)

Spec == Init /\ [][Next]_<<sent, received>>
=============================================================================
