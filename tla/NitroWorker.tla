---------------------------- MODULE NitroWorker ----------------------------
(***************************************************************************)
(* tee/nitro/enclave_worker.py: the server loop of an enclave.  It serves  *)
(* one connection after the other, with one recv and one answer for each.  *)
(*                                                                         *)
(* A recv returns some of the bytes that were sent, not always all.  A     *)
(* sendall to a client that has closed its end may succeed or may raise.   *)
(***************************************************************************)
EXTENDS Sequences, Functions

CONSTANTS Calls, Workers
VARIABLES
  worker,    \* the connection a worker serves, and where it is with it
  backlog,   \* connections it has not accepted yet
  request,   \* whether the client has sent its request
  open,      \* whether the client's end is open
  reply      \* what the worker has sent back

workerVars == <<worker, backlog, request, open, reply>>

Steps == {"accepting", "receiving", "handling", "replying", "reporting", "dead"}
Replies == {"none", "result", "error"}

Init ==
  /\ worker = [w \in Workers |-> [pc |-> "accepting", conn |-> {}]]
  /\ backlog = [w \in Workers |-> <<>>]
  /\ request = [c \in Calls |-> FALSE]
  /\ open = [c \in Calls |-> FALSE]
  /\ reply = [c \in Calls |-> "none"]

Alive(w) == worker[w].pc # "dead"
At(w, pc) == worker[w].pc = pc
Serves(w, c) == c \in worker[w].conn
Goto(w, pc) == worker' = [worker EXCEPT ![w].pc = pc]

(* The finally clause closes the connection, with or without an answer on  *)
(* it, and the loop accepts the next one.                                  *)
Free == [pc |-> "accepting", conn |-> {}]

(* The worker's end of a connection is closed when the worker is through   *)
(* with it: recv gets what was sent back and then nothing.                 *)
Closed(w, c) == ~Serves(w, c) /\ c \notin Range(backlog[w])

(* The client's end. *)
Connect(w, c) ==
  /\ backlog' = [backlog EXCEPT ![w] = Append(@, c)]
  /\ open' = [open EXCEPT ![c] = TRUE]
  /\ UNCHANGED <<worker, request, reply>>

Send(c) ==
  /\ request' = [request EXCEPT ![c] = TRUE]
  /\ UNCHANGED <<worker, backlog, open, reply>>

Close(calls) ==
  /\ open' = [c \in Calls |-> open[c] /\ c \notin calls]
  /\ UNCHANGED <<worker, backlog, request, reply>>

(* The server loop. *)
Accept(w) ==
  /\ At(w, "accepting") /\ backlog[w] # <<>>
  /\ worker' = [worker EXCEPT ![w] = [pc |-> "receiving", conn |-> {Head(backlog[w])}]]
  /\ backlog' = [backlog EXCEPT ![w] = Tail(@)]
  /\ UNCHANGED <<request, open, reply>>

(* recv waits for bytes, or for the client to close; what it returns need  *)
(* not be a whole request, and nothing, or a part, does not parse.         *)
Receive_UntilClosed(w) ==
  /\ At(w, "receiving")
  /\ \E c \in Calls :
       /\ Serves(w, c) /\ ~open[c]
       /\ \E pc \in {"handling", "reporting"} : Goto(w, pc)
  /\ UNCHANGED <<backlog, request, open, reply>>

Receive(w) ==
  /\ At(w, "receiving")
  /\ \E c \in Calls :
       /\ Serves(w, c)
       /\ \/ request[c] /\ \E pc \in {"handling", "reporting"} : Goto(w, pc)
          \/ ~request[c] /\ ~open[c] /\ Goto(w, "reporting")
  /\ UNCHANGED <<backlog, request, open, reply>>

(* handle_request, which raises when the NSM interface is missing.         *)
Handle(w) ==
  /\ At(w, "handling")
  /\ \E pc \in {"replying", "reporting"} : Goto(w, pc)
  /\ UNCHANGED <<backlog, request, open, reply>>

Deliver(c, kind) == reply' = [reply EXCEPT ![c] = IF open[c] THEN kind ELSE @]

Reply(w) ==
  /\ At(w, "replying")
  /\ \E c \in Calls :
       /\ Serves(w, c)
       /\ \/ /\ Deliver(c, "result")
             /\ worker' = [worker EXCEPT ![w] = Free]
          \/ /\ ~open[c]
             /\ Goto(w, "reporting")
             /\ UNCHANGED reply
  /\ UNCHANGED <<backlog, request, open>>

(* The except clause sends an error reply.  If that raises too, nothing    *)
(* catches it: the loop ends, and the enclave with it.                     *)
Report(w) ==
  /\ At(w, "reporting")
  /\ \E c \in Calls :
       /\ Serves(w, c)
       /\ \/ /\ Deliver(c, "error")
             /\ worker' = [worker EXCEPT ![w] = Free]
          \/ /\ ~open[c]
             /\ Goto(w, "dead")
             /\ UNCHANGED reply
  /\ UNCHANGED <<backlog, request, open>>

Serve(w) == Accept(w) \/ Receive(w) \/ Handle(w) \/ Reply(w) \/ Report(w)
=============================================================================
