---------------------------- MODULE ConversationLog ----------------------------
(***************************************************************************)
(* What the Messaging service promises: the two sides of a product share   *)
(* one list of messages, which only grows at its end, and reading up to a  *)
(* message of the other side marks that message and everything the other  *)
(* side wrote before it - never a message that came later.                 *)
(***************************************************************************)
EXTENDS Naturals, Sequences

CONSTANTS
  Context,   \* product and buyer: what a conversation is about
  Message    \* [id, sender, at] of the messages that can be sent

VARIABLES
  log,    \* messages of each context, oldest first
  read    \* positions of each log whose message was read

Init ==
  /\ log = [x \in Context |-> << >>]
  /\ read = [x \in Context |-> {}]

(* One message appears, after all the others. *)
Grow(x) ==
  /\ Len(log'[x]) = Len(log[x]) + 1
  /\ LET m == log'[x][Len(log'[x])] IN
       m \in Message /\ log' = [log EXCEPT ![x] = Append(@, m)]
  /\ UNCHANGED read

MarkThrough(x, n) ==
  /\ read' = [read EXCEPT ![x] =
       @ \cup {i \in 1..n : log[x][i].sender = log[x][n].sender}]
  /\ UNCHANGED log

Next ==
  \E x \in Context :
    \/ Grow(x)
    \/ read'[x] # read[x] /\ \E n \in 1..Len(log[x]) : MarkThrough(x, n)

Spec == Init /\ [][Next]_<<log, read>>
=============================================================================
