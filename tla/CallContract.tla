---------------------------- MODULE CallContract ----------------------------
(***************************************************************************)
(* What a caller of RIPCClientChannel::sendAndRecvMessage may rely on: a   *)
(* call that cannot be sent gets its callback at once and without an       *)
(* answer; a call that was sent gets its callback at most once, with the   *)
(* answer to this very call; when the connection goes, every call that is  *)
(* still waiting is forgotten together.  Once the stream is spoilt it is   *)
(* less: a callback may run again, still with the answer to its own call.  *)
(***************************************************************************)
EXTENDS Sequences

CONSTANTS Calls, NoCall

VARIABLES made,     \* calls the application has made
          waiting,  \* the ones whose callback may still run
          ran,      \* the answers each call's callback was run with
          spoilt    \* the stream of data is out of step

contractVars == <<made, waiting, ran>>

ContractInit == made = {} /\ waiting = {} /\ ran = [c \in Calls |-> <<>>]

Refuse(c) ==
  /\ c \notin made
  /\ made' = made \cup {c}
  /\ ran' = [ran EXCEPT ![c] = <<NoCall>>]
  /\ UNCHANGED waiting

Issue(c) ==
  /\ c \notin made
  /\ made' = made \cup {c} /\ waiting' = waiting \cup {c}
  /\ UNCHANGED ran

Answer(c) ==
  /\ c \in waiting
  /\ waiting' = waiting \ {c}
  /\ ran' = [ran EXCEPT ![c] = Append(@, c)]
  /\ UNCHANGED made

Repeat(c) ==
  /\ spoilt /\ ran[c] # <<>>
  /\ ran' = [ran EXCEPT ![c] = Append(@, c)]
  /\ UNCHANGED <<made, waiting>>

Forget == waiting' = {} /\ UNCHANGED <<made, ran>>

ContractNext == Forget \/ \E c \in Calls : Refuse(c) \/ Issue(c) \/ Answer(c) \/ Repeat(c)

ContractSpec == ContractInit /\ [][ContractNext]_contractVars
=============================================================================
