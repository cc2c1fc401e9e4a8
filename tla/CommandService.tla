--------------------------- MODULE CommandService ---------------------------
(***************************************************************************)
(* What the command path of the firmware promises its clients, stated     *)
(* without threads or queues: accepted requests wait in one FIFO line;    *)
(* the oldest one is answered first; a reset of the board forgets the     *)
(* whole line.  Nothing leaves the line any other way.                    *)
(*                                                                         *)
(* Pipeline implements this specification under the mapping given in     *)
(* Pipeline: the line is the executor's responses waiting in              *)
(* outbound_queue, then the one the executor holds, then the commands in  *)
(* inbound_queue.                                                          *)
(***************************************************************************)
EXTENDS Sequences, SequencesExt

CONSTANT Ids       \* request tags

VARIABLE line      \* accepted, unanswered requests, oldest first

Init == line = <<>>

\* A request is accepted at the back of the line.
Accept(i) ==
  /\ ~ \E k \in DOMAIN line : line[k] = i
  /\ line' = Append(line, i)

\* The oldest request is answered.
Answer ==
  /\ line # <<>>
  /\ line' = Tail(line)

\* The board resets: every accepted request is forgotten.
Reset ==
  /\ line' = <<>>

Next == (\E i \in Ids : Accept(i)) \/ Answer \/ Reset

Spec == Init /\ [][Next]_line

\* A client whose request was accepted gets an answer unless the board
\* resets: the line cannot stall for ever.
LiveSpec == Spec /\ WF_line(Answer \/ (line # <<>> /\ Reset))

=============================================================================
